---- MODULE Spec2Model ----
(***************************************************************************)
(* Model of the API client of src/src/modules/reader/queries.ts (the part  *)
(* headed "src/api/client.ts"): apiFetch, fetchWithTimeout and the         *)
(* single-flight refreshAccessToken, run on a single-threaded event loop.  *)
(* One action is one run of a handler between two awaits.                  *)
(***************************************************************************)
EXTENDS Integers, Sequences, FiniteSets, TLC

\* ---------------------------------------------------------------- bounds
\* Number of apiFetch calls of one run.
NCalls == 2
\* Largest idempotentRetries a caller passes.
MaxRetries == 3

Calls == 1..NCalls

\* ------------------------------------------------------- values of the code
\* null (no token, no promise, no Authorization header)
Null == 0
\* the empty string "": falsy, but not null
Empty == -1
\* an option the caller left out of `options`
Absent == -2

Truthy(t) == t > 0

\* the token the store may hold when the run starts
InitialToken == 1
\* the accessToken the refresh endpoint mints on its i-th invocation
NewToken(i) == InitialToken + i

\* DEFAULT_FETCH_OPTS.idempotentRetries
DefaultIdempotentRetries == 2
\* Math.min(1500 * attempt, 4000)
BackoffStepMs == 1500
BackoffCapMs == 4000

transientStatuses_With401 == <<401, 408, 425, 429, 500, 502, 503, 504>>

transientStatuses == <<408, 425, 429, 500, 502, 503, 504>>

\* the statuses the backend answers a request with
ServerStatuses == {200, 401, 404, 408, 429, 504}
\* the statuses of a backend that is up but rate limited
FewStatuses == {200, 401, 429}

\* ------------------------------------------------------------ strings
\* A string is a sequence of one-character strings.
Letters == {"a", "b", "m", "p", "M"}
Digits == {"0", "1"}
SchemeTail == Letters \cup Digits \cup {"+", ".", "-"}

BASE_URL == <<"m", ":", "/", "/", "b", "/">>

\* /^[a-z][a-z0-9+.-]*:\/\//i.test(input)
IsAbsolute(input) ==
    \E n \in 1..Len(input) :
        /\ n + 3 <= Len(input)
        /\ input[1] \in Letters
        /\ \A i \in 2..n : input[i] \in SchemeTail
        /\ input[n + 1] = ":"
        /\ input[n + 2] = "/"
        /\ input[n + 3] = "/"

\* s.replace(/\/+$/, "")
StripTrailingSlashes(s) ==
    LET keep == {n \in 0..Len(s) : \A i \in (n + 1)..Len(s) : s[i] = "/"}
        n == CHOOSE k \in keep : \A j \in keep : k <= j
    IN SubSeq(s, 1, n)

StripLeadingSlashes_One(s) == IF Len(s) > 0 /\ s[1] = "/" THEN Tail(s) ELSE s

\* s.replace(/^\/+/, "")
StripLeadingSlashes(s) ==
    LET drop == {n \in 0..Len(s) : \A i \in 1..n : s[i] = "/"}
        n == CHOOSE k \in drop : \A j \in drop : k >= j
    IN SubSeq(s, n + 1, Len(s))

\* toURL when env.API_BASE_URL is base
toURLWith(base, input) ==
    IF IsAbsolute(input) THEN input
    ELSE StripTrailingSlashes(base) \o <<"/">> \o StripLeadingSlashes(input)

toURL(input) == toURLWith(BASE_URL, input)

\* the targets callers pass: a relative path and an absolute URL
Inputs == { <<"/", "p">>, <<"m", ":", "/", "/", "a">> }

\* (init.method ?? "GET").toUpperCase()
toUpperCase(m) ==
    CASE m = "get" -> "GET"
      [] m = "post" -> "POST"
      [] OTHER -> m

MethodOf(initMethod) == toUpperCase(IF initMethod = "undefined" THEN "GET" ELSE initMethod)

\* the init.method values callers pass ("undefined": left out)
Methods == {"undefined", "get", "GET", "post", "POST", "PUT", "PATCH", "DELETE"}

isGet_Any(method) == TRUE

isGet(method) == method = "GET"

\* res.ok
ResOk(status) == status >= 200 /\ status <= 299

isTransient(code) == \E i \in 1..Len(transientStatuses) : transientStatuses[i] = code

\* options.idempotentRetries ?? DEFAULT_FETCH_OPTS.idempotentRetries
RetriesOrDefault(idempotentRetries) ==
    IF idempotentRetries = Absent THEN DefaultIdempotentRetries ELSE idempotentRetries

\* let remainingIdempotent = isGet ? opts.idempotentRetries : 0
InitialRemaining(method, idempotentRetries) ==
    IF isGet(method) THEN RetriesOrDefault(idempotentRetries) ELSE 0

AttemptNumber_FromZero(idempotentRetries, remainingIdempotent) ==
    RetriesOrDefault(idempotentRetries) - remainingIdempotent

\* const attempt = (options.idempotentRetries ?? DEFAULT) - remainingIdempotent + 1
AttemptNumber(idempotentRetries, remainingIdempotent) ==
    RetriesOrDefault(idempotentRetries) - remainingIdempotent + 1

Min(a, b) == IF a <= b THEN a ELSE b

\* const waitMs = Math.min(1500 * attempt, 4000)
WaitMs(attempt) == Min(BackoffStepMs * attempt, BackoffCapMs)


\* ------------------------------------------------------------------ state
VARIABLES
    calls,          \* per apiFetch call: its options, locals and position
    token,          \* the Token Store's value (Null: none)
    refreshPromise, \* the module's refreshPromise (Null, or the promise's id)
    refreshes,      \* the runs of refreshAccessToken's async body, by promise id
    timers,         \* armed setTimeout timers of fetchWithTimeout: <<call, attempt>>
    backend,        \* the statuses the backend answers with in this run
    secure,         \* the state of src/lib/secure-store.ts and of its backing storage
    tokenUse,       \* the last write to the secure store and the read that followed
    reader,         \* the reader store: the open document and its page cache
    now,            \* the clock, in seconds
    resolves,       \* the resolvePageUrl calls made, in order
    opens,          \* the open calls made, the last id asked for, those awaiting getPdfDetail
    endpoint,       \* the call of an endpoint of src/lib/pdfApi.ts and its result
    resolution,     \* a base URL, a target and what toURL makes of them
    authSession,    \* the loginWithPassword and clearSession calls of the run
    library,        \* the library store and the listPdfs requests it awaits
    tabs            \* browser tabs sharing the token broadcast channel

\* the state of the API client
client == <<calls, token, refreshPromise, refreshes, timers, backend>>
\* the state of the secure store
storeVars == <<secure, tokenUse>>
\* the state of the reader store
readerVars == <<reader, now, resolves, opens>>
\* the state of the resource API layer
pdfVars == <<endpoint>>
\* the state of the URL resolution and of the session helpers
urlVars == <<resolution>>
sessionVars == <<authSession>>
\* the state of the library store
libraryVars == <<library>>
\* the state of the tabs on the broadcast channel
tabVars == <<tabs>>
\* the stores of the screens and the other tabs
restVars == <<library, tabs>>
\* the state of the other modules
others == <<secure, tokenUse, reader, now, resolves, opens, endpoint, resolution, authSession,
            library, tabs>>

vars == <<calls, token, refreshPromise, refreshes, timers, backend,
          secure, tokenUse, reader, now, resolves, opens, endpoint, resolution, authSession,
          library, tabs>>

NoOutcome == [kind |-> "none", status |-> 0, url |-> <<>>]

\* the locals of one apiFetch call before its first statement
NewCall(input, initMethod, auth, retryOn401, throwOnHTTPError, idempotentRetries) ==
    [pc |-> "init", input |-> input, initMethod |-> initMethod, auth |-> auth,
     retryOn401 |-> retryOn401, throwOnHTTPError |-> throwOnHTTPError,
     idempotentRetries |-> idempotentRetries,
     headers |-> Null, currentHeaders |-> Null, remaining |-> 0, res |-> 0,
     log |-> <<>>, waits |-> <<>>,
     refreshCalls |-> 0, refreshId |-> Null, sawPending |-> FALSE,
     next |-> Null, observed |-> FALSE,
     signal |-> "none", hasAny |-> TRUE,
     outcome |-> NoOutcome]

UnusedCall == [NewCall(<<>>, "undefined", FALSE, FALSE, FALSE, Absent) EXCEPT !.pc = "unused"]

\* every call a caller can make
AllCalls ==
    {NewCall(i, m, a, r, t, n) :
        i \in Inputs, m \in Methods, a \in BOOLEAN, r \in BOOLEAN, t \in BOOLEAN,
        n \in {Absent} \cup 0..MaxRetries}

\* the calls of a screen that loads several resources at once: GETs with the
\* default options, the first with one backoff retry and the others with none
ScreenCall(c) == NewCall(<<"/", "p">>, "undefined", TRUE, TRUE, TRUE, IF c = 1 THEN 1 ELSE 0)

\* a refresh whose request is in flight, its body being read, or its token
\* being written
Pending(i) == refreshes[i].pc # "done"
PendingRefreshes == {i \in DOMAIN refreshes : Pending(i)}

\* the number of POST /auth/refresh requests issued so far
refreshCount == Len(refreshes)

\* ----------------------------------------------------------- composeSignals
\* An AbortSignal is "live" or "aborted"; "none" is a signal left out
\* (undefined). The abort reason is not modelled.
composeSignals_TimeoutOnly(a, b, hasAny) == b

\* composeSignals(a, b): with AbortSignal.any the signal of the ones present;
\* else b alone, a alone, or a controller that is aborted at once if a or b
\* already is and by the "abort" listeners on a and b
composeSignals(a, b, hasAny) ==
    IF hasAny
    THEN IF a = "aborted" \/ b = "aborted" THEN "aborted" ELSE "live"
    ELSE IF a = "none" THEN b
         ELSE IF b = "none" THEN a
         ELSE IF a = "aborted" \/ b = "aborted" THEN "aborted" ELSE "live"

\* --------------------------------------------------------- fetchWithTimeout
\* const timeoutId = setTimeout(() => timeoutCtrl.abort(), timeoutMs)
ArmTimer(ts, c, k) == ts \cup {<<c, k>>}

ClearTimer_Leak(ts, c, k) == ts

\* finally { clearTimeout(timeoutId) }
ClearTimer(ts, c, k) == ts \ {<<c, k>>}

StartAttempt_StaleHeaders(cr, phase) ==
    [cr EXCEPT !.pc = "fetch",
               !.log = Append(@, [phase |-> phase,
                                  auth |-> IF phase = "backoff" THEN cr.headers
                                           ELSE cr.currentHeaders,
                                  result |-> "pending", status |-> 0,
                                  ctrl |-> Len(cr.log) + 1,
                                  atStart |-> composeSignals(cr.signal, "live", cr.hasAny),
                                  signal |-> composeSignals(cr.signal, "live", cr.hasAny)])]

\* fetchWithTimeout(url, {..., headers: currentHeaders}, opts.timeoutMs) up to
\* its await: the attempt gets its own controller (ctrl) and the headers of now
StartAttempt(cr, phase) ==
    [cr EXCEPT !.pc = "fetch",
               !.log = Append(@, [phase |-> phase, auth |-> cr.currentHeaders,
                                  result |-> "pending", status |-> 0,
                                  ctrl |-> Len(cr.log) + 1,
                                  atStart |-> composeSignals(cr.signal, "live", cr.hasAny),
                                  signal |-> composeSignals(cr.signal, "live", cr.hasAny)])]

InFlight(cr) == cr.pc = "fetch"
Current(cr) == cr.log[Len(cr.log)]

\* the attempt in flight settles: a response, an abort or a transport failure
SettleAttempt(cr, result, status) ==
    [cr EXCEPT !.log[Len(cr.log)] = [@ EXCEPT !.result = result, !.status = status],
               !.res = IF result = "response" THEN status ELSE @]

\* ------------------------------------------------------------------ apiFetch
\* the promise apiFetch returned settles
Settle(cr, kind, status) ==
    [cr EXCEPT !.pc = "done",
               !.outcome = [kind |-> kind, status |-> status,
                            url |-> IF kind = "APIError" THEN toURL(cr.input) ELSE <<>>]]

AbortAttempt_Retry(cr) ==
    [SettleAttempt([cr EXCEPT !.log[Len(cr.log)].signal = "aborted"], "aborted", 0)
        EXCEPT !.pc = "backoff"]

\* the signal given to the attempt in flight aborts: fetch rejects with an
\* AbortError, fetchWithTimeout's finally runs and apiFetch lets the error through
AbortAttempt(cr) ==
    Settle(SettleAttempt([cr EXCEPT !.log[Len(cr.log)].signal = "aborted"], "aborted", 0),
           "AbortError", 0)

\* fetchWithTimeout(url, init, timeoutMs) up to its await of fetch, and past it
\* when the signal it composed is aborted already
fetchWithTimeout(cr, phase) ==
    LET st == StartAttempt(cr, phase) IN
    IF Current(st).signal = "aborted" THEN AbortAttempt(st) ELSE st

\* the timers after fetchWithTimeout ran for call c: the attempt's timer is
\* armed while its fetch is awaited, and cleared by the finally otherwise
TimerOf(ts, c, cr) ==
    IF InFlight(cr) THEN ArmTimer(ts, c, Current(cr).ctrl) ELSE ts

\* res.status === 401 && opts.retryOn401
ShouldRefresh(status, retryOn401) == status = 401 /\ retryOn401

ShouldBackoff_OffByOne(status, method, remaining) ==
    /\ ~ResOk(status)
    /\ isGet(method)
    /\ remaining > 1
    /\ isTransient(status)

\* while (!res.ok && isGet && remainingIdempotent > 0 && isTransient(res.status))
ShouldBackoff(status, method, remaining) ==
    /\ ~ResOk(status)
    /\ isGet(method)
    /\ remaining > 0
    /\ isTransient(status)

ShouldThrow_ServerOnly(throwOnHTTPError, status) == throwOnHTTPError /\ status >= 500

\* if (opts.throwOnHTTPError && !res.ok)
ShouldThrow(throwOnHTTPError, status) == throwOnHTTPError /\ ~ResOk(status)

\* the head of the backoff loop and what follows the loop: wait for the backoff
\* timer, or read the error body to throw, or return res
LoopOrFinish(cr) ==
    IF ShouldBackoff(cr.res, MethodOf(cr.initMethod), cr.remaining)
    THEN [cr EXCEPT !.pc = "backoff",
                    !.waits = Append(@, WaitMs(AttemptNumber(cr.idempotentRetries,
                                                             cr.remaining)))]
    ELSE IF ShouldThrow(cr.throwOnHTTPError, cr.res)
         THEN [cr EXCEPT !.pc = "errorBody"]
         ELSE Settle(cr, "returned", cr.res)

\* the headers of the attempts after a refresh that yielded `next`
RetryHeaders(currentHeaders, next) == next

\* const next = await refreshAccessToken() has resolved: re-issue with the new
\* bearer token, or go on with the 401
AfterRefresh(cr, next) ==
    LET got == [cr EXCEPT !.next = next, !.observed = TRUE] IN
    IF Truthy(next)
    THEN fetchWithTimeout([got EXCEPT !.currentHeaders = RetryHeaders(@, next)], "retry401")
    ELSE LoopOrFinish(got)

\* apiFetch from its first statement to the await of the initial fetch
ApiFetchStart(c) ==
    /\ calls[c].pc = "init"
    /\ LET cr == calls[c]
           tok == IF cr.auth THEN token ELSE Null
           hdr == IF cr.auth /\ Truthy(tok) THEN tok ELSE Null
           ready == [cr EXCEPT !.headers = hdr, !.currentHeaders = hdr,
                               !.remaining = InitialRemaining(MethodOf(cr.initMethod),
                                                              cr.idempotentRetries)]
           started == fetchWithTimeout(ready, "initial")
       IN /\ calls' = [calls EXCEPT ![c] = started]
          /\ timers' = TimerOf(timers, c, started)
    /\ UNCHANGED <<token, refreshPromise, refreshes, backend, others>>

\* ----------------------------------------------------------- refresh flow
\* refreshAccessToken() up to its return: the pending promise, or a new run of
\* the async body (whose fetch is issued before the promise is assigned)
refreshAccessToken_NoMutex(rp, rs) ==
    [promise |-> Len(rs) + 1, refreshPromise |-> Len(rs) + 1,
     refreshes |-> Append(rs, [pc |-> "fetch", next |-> Null])]

refreshAccessToken(rp, rs) ==
    IF rp # Null
    THEN [promise |-> rp, refreshPromise |-> rp, refreshes |-> rs]
    ELSE [promise |-> Len(rs) + 1, refreshPromise |-> Len(rs) + 1,
          refreshes |-> Append(rs, [pc |-> "fetch", next |-> Null])]

\* finally { refreshPromise = null }
FinallyClear_Leak(rp) == rp

FinallyClear(rp) == Null

\* the response of the initial fetch: on a 401, call refreshAccessToken and
\* await it; else go to the backoff loop
InitialResponse(c, s) ==
    /\ InFlight(calls[c])
    /\ Current(calls[c]).phase = "initial"
    /\ LET cr == SettleAttempt(calls[c], "response", s) IN
       IF ShouldRefresh(s, cr.retryOn401)
       THEN LET r == refreshAccessToken(refreshPromise, refreshes) IN
            /\ calls' = [calls EXCEPT ![c] =
                            [cr EXCEPT !.pc = "awaitRefresh",
                                       !.refreshCalls = @ + 1,
                                       !.refreshId = r.promise,
                                       !.sawPending = PendingRefreshes # {}]]
            /\ refreshPromise' = r.refreshPromise
            /\ refreshes' = r.refreshes
       ELSE /\ calls' = [calls EXCEPT ![c] = LoopOrFinish(cr)]
            /\ UNCHANGED <<refreshPromise, refreshes>>
    /\ timers' = ClearTimer(timers, c, Current(calls[c]).ctrl)
    /\ UNCHANGED <<token, backend, others>>

\* the response of the fetch re-issued after the refresh
RetryResponse(c, s) ==
    /\ InFlight(calls[c])
    /\ Current(calls[c]).phase = "retry401"
    /\ calls' = [calls EXCEPT ![c] = LoopOrFinish(SettleAttempt(calls[c], "response", s))]
    /\ timers' = ClearTimer(timers, c, Current(calls[c]).ctrl)
    /\ UNCHANGED <<token, refreshPromise, refreshes, backend, others>>

CountDown_Stuck(remainingIdempotent) == remainingIdempotent

\* remainingIdempotent -= 1
CountDown(remainingIdempotent) == remainingIdempotent - 1

\* await new Promise(r => setTimeout(r, waitMs)) is over: count the retry down
\* and fetch again
BackoffElapsed(c) ==
    /\ calls[c].pc = "backoff"
    /\ LET started == fetchWithTimeout([calls[c] EXCEPT !.remaining = CountDown(@)],
                                       "backoff")
       IN /\ calls' = [calls EXCEPT ![c] = started]
          /\ timers' = TimerOf(timers, c, started)
    /\ UNCHANGED <<token, refreshPromise, refreshes, backend, others>>

\* the response of a backoff retry
BackoffResponse(c, s) ==
    /\ InFlight(calls[c])
    /\ Current(calls[c]).phase = "backoff"
    /\ calls' = [calls EXCEPT ![c] = LoopOrFinish(SettleAttempt(calls[c], "response", s))]
    /\ timers' = ClearTimer(timers, c, Current(calls[c]).ctrl)
    /\ UNCHANGED <<token, refreshPromise, refreshes, backend, others>>

\* the timer of attempt k of call c fires and aborts that attempt's controller;
\* the fetch listening to it rejects and apiFetch throws
FetchTimeout(c, k) ==
    /\ <<c, k>> \in timers
    /\ IF /\ InFlight(calls[c])
          /\ Current(calls[c]).ctrl = k
          /\ composeSignals(calls[c].signal, "aborted", calls[c].hasAny) = "aborted"
       THEN /\ calls' = [calls EXCEPT ![c] = AbortAttempt(calls[c])]
            /\ timers' = ClearTimer(timers, c, k)
       ELSE /\ timers' = timers \ {<<c, k>>}
            /\ UNCHANGED calls
    /\ UNCHANGED <<token, refreshPromise, refreshes, backend, others>>

\* the fetch of the attempt in flight rejects (no HTTP response) and apiFetch
\* throws
FetchFail(c) ==
    /\ InFlight(calls[c])
    /\ calls' = [calls EXCEPT ![c] =
                    Settle(SettleAttempt(calls[c], "failed", 0), "TypeError", 0)]
    /\ timers' = ClearTimer(timers, c, Current(calls[c]).ctrl)
    /\ UNCHANGED <<token, refreshPromise, refreshes, backend, others>>

\* the caller aborts the signal it passed as init.signal: the attempt in flight,
\* whose signal was composed from it, aborts; a call that awaits something else
\* (the refresh, the backoff timer, the error body) goes on awaiting it
CallerAbort(c) ==
    /\ calls[c].pc \notin {"unused", "done"}
    /\ calls[c].signal = "live"
    /\ LET cr == [calls[c] EXCEPT !.signal = "aborted"] IN
       IF InFlight(cr) /\ composeSignals(cr.signal, "live", cr.hasAny) = "aborted"
       THEN /\ calls' = [calls EXCEPT ![c] = AbortAttempt(cr)]
            /\ timers' = ClearTimer(timers, c, Current(cr).ctrl)
       ELSE /\ calls' = [calls EXCEPT ![c] = cr]
            /\ UNCHANGED timers
    /\ UNCHANGED <<token, refreshPromise, refreshes, backend, others>>

\* const data = await safeJson(res); throw new APIError(...)
ErrorBodyRead(c) ==
    /\ calls[c].pc = "errorBody"
    /\ calls' = [calls EXCEPT ![c] = Settle(calls[c], "APIError", calls[c].res)]
    /\ UNCHANGED <<token, refreshPromise, refreshes, timers, backend, others>>

\* res.text() of the error response rejects
ErrorBodyFail(c) ==
    /\ calls[c].pc = "errorBody"
    /\ calls' = [calls EXCEPT ![c] = Settle(calls[c], "TypeError", 0)]
    /\ UNCHANGED <<token, refreshPromise, refreshes, timers, backend, others>>

\* the async body of refreshAccessToken returns `value`: the finally block
\* runs, the promise resolves and every call awaiting it goes on
SettleRefresh(i, value) ==
    LET waiting == {c \in Calls : calls[c].pc = "awaitRefresh" /\ calls[c].refreshId = i} IN
    /\ refreshes' = [refreshes EXCEPT ![i] = [pc |-> "done", next |-> value]]
    /\ refreshPromise' = FinallyClear(refreshPromise)
    /\ calls' = [c \in Calls |->
                    IF c \in waiting THEN AfterRefresh(calls[c], value) ELSE calls[c]]
    /\ timers' = timers \cup {<<c, Len(calls[c].log) + 1>> :
                                c \in {w \in waiting : InFlight(AfterRefresh(calls[w], value))}}

\* the refresh request is answered: if (!res.ok) return null
RefreshResponse(i, ok) ==
    /\ i \in DOMAIN refreshes
    /\ refreshes[i].pc = "fetch"
    /\ IF ok
       THEN /\ refreshes' = [refreshes EXCEPT ![i].pc = "body"]
            /\ UNCHANGED <<calls, refreshPromise, timers>>
       ELSE SettleRefresh(i, Null)
    /\ UNCHANGED <<token, backend, others>>

\* the refresh request fails at transport level: catch { return null }
RefreshFail(i) ==
    /\ i \in DOMAIN refreshes
    /\ refreshes[i].pc = "fetch"
    /\ SettleRefresh(i, Null)
    /\ UNCHANGED <<token, backend, others>>

\* the body is read: const next = data?.accessToken ?? null; a truthy next is
\* written to the Token Store, another one is returned as it is
RefreshBody(i, accessToken) ==
    /\ i \in DOMAIN refreshes
    /\ refreshes[i].pc = "body"
    /\ IF Truthy(accessToken)
       THEN /\ refreshes' = [refreshes EXCEPT ![i] = [pc |-> "store", next |-> accessToken]]
            /\ UNCHANGED <<calls, refreshPromise, timers>>
       ELSE SettleRefresh(i, accessToken)
    /\ UNCHANGED <<token, backend, others>>

\* reading the body rejects: catch { return null }
RefreshBodyFail(i) ==
    /\ i \in DOMAIN refreshes
    /\ refreshes[i].pc = "body"
    /\ SettleRefresh(i, Null)
    /\ UNCHANGED <<token, backend, others>>

TokenStoreSet_Skip(stored, next) == stored

\* TokenStore.set(next): the store's value afterwards
TokenStoreSet(stored, next) == next

\* await TokenStore.set(next) is over: return next
RefreshStored(i) ==
    /\ i \in DOMAIN refreshes
    /\ refreshes[i].pc = "store"
    /\ token' = TokenStoreSet(token, refreshes[i].next)
    /\ SettleRefresh(i, refreshes[i].next)
    /\ UNCHANGED <<backend, others>>

\* ------------------------------------------------------------ secure store
\* src/lib/secure-store.ts. The store keeps the token in the platform's
\* SecureStore (native), in inMemoryToken (web) or in sessionStorage with
\* inMemoryToken as fallback (web with WEB_PERSIST_TOKEN).
StoreModes == {"native", "webMemory", "webSession"}
\* the values set() is called with: null and two tokens
StoreValues == {Null, InitialToken, NewToken(1)}
\* what SecureStore.isAvailableAsync() does
Probes == {"yes", "no", "throws"}
\* Number of Token Store operations of one run.
MaxOps == 3

\* the module state after its top-level statements ran
NewStore(mode, hasBC, session, memory, keychain) ==
    [mode |-> mode,
     inMemoryToken |-> memory,
     session |-> session,       \* sessionStorage.getItem(ACCESS_TOKEN_KEY)
     keychain |-> keychain,     \* the item SecureStore holds
     secureStoreChecked |-> FALSE,
     secureStoreIsAvailable |-> FALSE,
     hasBC |-> hasBC,           \* bc !== null
     posted |-> <<>>]           \* the values posted on the BroadcastChannel

\* the store while the model looks at other modules
IdleStore == NewStore("webMemory", FALSE, Null, Null, Null)

NoUse == [ops |-> 0, op |-> "none", value |-> Null, threw |-> FALSE, read |-> Absent]

\* secureStoreAvailable(): the probe is made once and its answer cached
secureStoreAvailable(st, probe) ==
    IF st.secureStoreChecked THEN st
    ELSE [st EXCEPT !.secureStoreChecked = TRUE,
                    !.secureStoreIsAvailable = (probe = "yes")]

\* broadcastToken(value): bc?.postMessage(...)
broadcastToken(st, value) ==
    IF st.hasBC THEN [st EXCEPT !.posted = Append(@, value)] ELSE st

\* secure.getItemAsync(key); `throws`: the backing read throws
getItemAsync(st, probe, throws) ==
    CASE st.mode = "webSession" ->
             [store |-> st, value |-> IF throws THEN st.inMemoryToken ELSE st.session]
      [] st.mode = "webMemory" ->
             [store |-> st, value |-> st.inMemoryToken]
      [] st.mode = "native" ->
             LET p == secureStoreAvailable(st, probe) IN
             [store |-> p,
              value |-> IF ~p.secureStoreIsAvailable \/ throws THEN Null ELSE p.keychain]

\* secure.setItemAsync(key, value); `throws`: the backing write throws
setItemAsync(st, value, probe, throws) ==
    CASE st.mode = "webSession" ->
             broadcastToken([st EXCEPT !.session = IF throws THEN @ ELSE value,
                                       !.inMemoryToken = value], value)
      [] st.mode = "webMemory" ->
             broadcastToken([st EXCEPT !.inMemoryToken = value], value)
      [] st.mode = "native" ->
             LET p == secureStoreAvailable(st, probe) IN
             IF ~p.secureStoreIsAvailable \/ throws THEN p
             ELSE [p EXCEPT !.keychain = value]

deleteItemAsync_KeepsMemory(st, probe, throws) ==
    CASE st.mode = "webSession" ->
             broadcastToken([st EXCEPT !.session = IF throws THEN @ ELSE Null], Null)
      [] st.mode = "webMemory" -> broadcastToken(st, Null)
      [] st.mode = "native" ->
             LET p == secureStoreAvailable(st, probe) IN
             IF ~p.secureStoreIsAvailable \/ throws THEN p
             ELSE [p EXCEPT !.keychain = Null]

\* secure.deleteItemAsync(key); `throws`: the backing removal throws
deleteItemAsync(st, probe, throws) ==
    CASE st.mode = "webSession" ->
             broadcastToken([st EXCEPT !.session = IF throws THEN @ ELSE Null,
                                       !.inMemoryToken = Null], Null)
      [] st.mode = "webMemory" ->
             broadcastToken([st EXCEPT !.inMemoryToken = Null], Null)
      [] st.mode = "native" ->
             LET p == secureStoreAvailable(st, probe) IN
             IF ~p.secureStoreIsAvailable \/ throws THEN p
             ELSE [p EXCEPT !.keychain = Null]

\* bc.onmessage: another tab announced its token
onmessage(st, value, throws) ==
    [st EXCEPT !.inMemoryToken = value,
               !.session = IF st.mode = "webSession" /\ ~throws THEN value ELSE @]

\* await TokenStore.set(x) / setAccessToken(x), from call to completion
StoreSet(x, probe, throws) ==
    /\ tokenUse.ops < MaxOps
    /\ secure' = setItemAsync(secure, x, probe, throws)
    /\ tokenUse' = [ops |-> tokenUse.ops + 1, op |-> "set", value |-> x,
                    threw |-> throws, read |-> Absent]
    /\ UNCHANGED <<client, readerVars, pdfVars, urlVars, sessionVars, restVars>>

\* await TokenStore.clear() / clearAccessToken()
StoreClear(probe, throws) ==
    /\ tokenUse.ops < MaxOps
    /\ secure' = deleteItemAsync(secure, probe, throws)
    /\ tokenUse' = [ops |-> tokenUse.ops + 1, op |-> "clear", value |-> Null,
                    threw |-> throws, read |-> Absent]
    /\ UNCHANGED <<client, readerVars, pdfVars, urlVars, sessionVars, restVars>>

\* await TokenStore.get() / getAccessToken()
StoreGet(probe, throws) ==
    /\ tokenUse.ops < MaxOps
    /\ LET r == getItemAsync(secure, probe, throws) IN
       /\ secure' = r.store
       /\ tokenUse' = [tokenUse EXCEPT !.ops = @ + 1, !.read = r.value]
    /\ UNCHANGED <<client, readerVars, pdfVars, urlVars, sessionVars, restVars>>

\* a message of another tab arrives on the BroadcastChannel
TabMessage(value, throws) ==
    /\ tokenUse.ops < MaxOps
    /\ secure.hasBC
    /\ secure' = onmessage(secure, value, throws)
    /\ tokenUse' = [ops |-> tokenUse.ops + 1, op |-> "message", value |-> value,
                    threw |-> throws, read |-> Absent]
    /\ UNCHANGED <<client, readerVars, pdfVars, urlVars, sessionVars, restVars>>

\* ------------------------------------------------------------ reader store
\* The reader store of src/unnamed/part_009 (useReader): the open document,
\* its page cache of signed URLs, and the calls of open and resolvePageUrl
\* that await the backend. Time is in seconds.
Docs == {"A", "B"}
\* the most pages a document has
MaxPages == 2
\* Number of open calls, resolvePageUrl calls and clock steps of one run.
MaxReaderSteps == 5
\* the seconds between two looks at the clock
TickSeconds == 10
\* isExpired(expiresAt, skewSeconds = 20)
SkewSeconds == 20
\* the lifetime of the URLs the page-url endpoint signs
SignedSeconds == 30

\* undefined, where a URL is expected
NoUrl == [kind |-> "none", doc |-> "", page |-> 0, exp |-> Absent]
\* a URL of the backend's static list in the document detail
StaticUrl(doc, page) == [kind |-> "static", doc |-> doc, page |-> page, exp |-> Absent]
\* a URL the page-url endpoint minted; exp: when its signature ends (Absent: never)
MintedUrl(doc, page, exp) == [kind |-> "minted", doc |-> doc, page |-> page, exp |-> exp]

\* pageCache[page] === undefined
NoEntry == [url |-> NoUrl, expiresAt |-> Absent]
\* current === undefined
NoDoc == [id |-> "", pages |-> 0, isArray |-> FALSE, pageUrls |-> <<>>]

\* the details GET /pdfs/:id answers with, once validated: pageUrls is null
\* (isArray FALSE) or an array of URLs
Details(id) ==
    IF id = "A"
    THEN {[id |-> "A", pages |-> 2, isArray |-> FALSE, pageUrls |-> <<>>],
          [id |-> "A", pages |-> 2, isArray |-> TRUE, pageUrls |-> <<StaticUrl("A", 1)>>]}
    ELSE {[id |-> "B", pages |-> 1, isArray |-> FALSE, pageUrls |-> <<>>]}

EmptyCache == [p \in 1..MaxPages |-> NoEntry]

\* searchHits: []
NoHits == <<>>
\* the hits searchPdf(id, q) returns: those of document id
HitsOf(id) == <<id>>

Max(a, b) == IF a >= b THEN a ELSE b

ClampPage_NoUpper(n, total) == Max(1, n)

\* Math.max(1, Math.min(n, total))
ClampPage(n, total) == Max(1, Min(n, total))

isExpired_NoSkew(expiresAt, nowSec) ==
    IF expiresAt = Absent THEN FALSE ELSE expiresAt <= nowSec

\* isExpired(expiresAt): t - skewSeconds * 1000 <= nowMs(); no expiresAt: never.
\* (A validated expiresAt is a datetime, so Date.parse does not give NaN.)
isExpired(expiresAt, nowSec) ==
    IF expiresAt = Absent THEN FALSE ELSE expiresAt - SkewSeconds <= nowSec

DocumentChanged_Never(cur, docId) == FALSE

\* get().current?.id !== docId
DocumentChanged(cur, docId) == cur.id # docId

\* nextPageUrls: a copy of current.pageUrls, or totalPages times undefined,
\* with nextPageUrls[page - 1] = url
NextPageUrls(cur, page, url) ==
    LET base == IF cur.isArray THEN cur.pageUrls
                ELSE [i \in 1..Max(1, cur.pages) |-> NoUrl]
        len == Max(Len(base), page)
    IN [i \in 1..len |-> IF i = page THEN url
                         ELSE IF i <= Len(base) THEN base[i] ELSE NoUrl]

\* one resolvePageUrl call: its locals and what became of it
NewResolve(cur, page) ==
    [pc |-> "fetch", docId |-> cur.id, page |-> page,
     fetched |-> FALSE, switched |-> FALSE, wrote |-> FALSE,
     kind |-> "pending", url |-> NoUrl, stale |-> FALSE]

\* the call returns url or throws (kind names the error); stale: the URL it
\* returns is within SkewSeconds of the end of its signature, or past it
Finish(rr, kind, url, nowSec) ==
    [rr EXCEPT !.pc = "done", !.kind = kind, !.url = url,
               !.stale = isExpired(url.exp, nowSec)]

\* the open and resolvePageUrl calls made and the clock steps taken so far
ReaderSteps == opens.count + opens.more + Len(resolves) + (now \div TickSeconds)

\* open(id) up to its await of getPdfDetail, or to its return when the
\* document is the one already open; the page cache is wiped in either case
Open(id) ==
    /\ ReaderSteps < MaxReaderSteps
    /\ reader' = IF reader.current.id = id
                 THEN [reader EXCEPT !.pageCache = EmptyCache, !.searchHits = NoHits]
                 ELSE [reader EXCEPT !.pageCache = EmptyCache, !.searchHits = NoHits,
                                     !.page = 1]
    /\ opens' = [opens EXCEPT !.count = @ + 1,
                              !.pending = IF reader.current.id = id THEN @
                                          ELSE [@ EXCEPT ![id] = @ + 1],
                              !.last = id]
    /\ UNCHANGED <<now, resolves, client, storeVars, pdfVars, urlVars, sessionVars, restVars>>

\* getPdfDetail(id) resolved: the detail becomes the open document
OpenResponse(id, detail) ==
    /\ opens.pending[id] > 0
    /\ opens' = [opens EXCEPT !.pending[id] = @ - 1]
    /\ reader' = [current |-> detail, pageCache |-> EmptyCache, page |-> 1,
                  searchHits |-> NoHits]
    /\ resolves' = [r \in DOMAIN resolves |->
                       IF resolves[r].pc = "fetch" /\ resolves[r].docId # id
                       THEN [resolves[r] EXCEPT !.switched = TRUE]
                       ELSE resolves[r]]
    /\ UNCHANGED <<now, client, storeVars, pdfVars, urlVars, sessionVars, restVars>>

\* getPdfDetail(id) rejected: open throws "Failed to open document"
OpenFail(id) ==
    /\ opens.pending[id] > 0
    /\ opens' = [opens EXCEPT !.pending[id] = @ - 1, !.failed = TRUE]
    /\ UNCHANGED <<reader, now, resolves, client, storeVars, pdfVars, urlVars, sessionVars, restVars>>

\* resolvePageUrl(n) up to its return of a cached or static URL, or to its
\* await of safeGetPageUrl
Resolve(n) ==
    /\ ReaderSteps < MaxReaderSteps
    /\ LET cur == reader.current
           page == ClampPage(n, cur.pages)
           cached == reader.pageCache[page]
           rr == NewResolve(cur, page)
       IN IF cur = NoDoc
          THEN /\ resolves' = Append(resolves, Finish(rr, "NoDocument", NoUrl, now))
               /\ UNCHANGED reader
          ELSE IF cached # NoEntry /\ ~isExpired(cached.expiresAt, now)
          THEN /\ resolves' = Append(resolves, Finish(rr, "url", cached.url, now))
               /\ UNCHANGED reader
          ELSE IF /\ cached = NoEntry
                  /\ cur.isArray
                  /\ page <= Len(cur.pageUrls)
                  /\ cur.pageUrls[page] # NoUrl
          THEN /\ reader' = [reader EXCEPT !.pageCache[page] =
                                [url |-> cur.pageUrls[page], expiresAt |-> Absent]]
               /\ resolves' = Append(resolves, Finish(rr, "url", cur.pageUrls[page], now))
          ELSE /\ resolves' = Append(resolves, [rr EXCEPT !.fetched = TRUE])
               /\ UNCHANGED reader
    /\ UNCHANGED <<now, opens, client, storeVars, pdfVars, urlVars, sessionVars, restVars>>

\* safeGetPageUrl resolved with a URL minted now (signed: with an expiresAt):
\* "Document changed", or the URL goes to the page cache and to
\* current.pageUrls and is returned
ResolveResponse(r, signed) ==
    /\ r \in DOMAIN resolves
    /\ resolves[r].pc = "fetch"
    /\ LET rr == resolves[r]
           cur == reader.current
           exp == IF signed THEN now + SignedSeconds ELSE Absent
           resp == [url |-> MintedUrl(rr.docId, rr.page, exp), expiresAt |-> exp]
       IN IF DocumentChanged(cur, rr.docId)
          THEN /\ resolves' = [resolves EXCEPT ![r] = Finish(rr, "DocumentChanged", NoUrl, now)]
               /\ UNCHANGED reader
          ELSE /\ reader' = [reader EXCEPT
                                !.current = [cur EXCEPT !.isArray = TRUE,
                                                        !.pageUrls = NextPageUrls(cur, rr.page, resp.url)],
                                !.pageCache[rr.page] =
                                    [url |-> resp.url, expiresAt |-> resp.expiresAt]]
               /\ resolves' = [resolves EXCEPT ![r] =
                                  Finish([rr EXCEPT !.wrote = TRUE], "url", resp.url, now)]
    /\ UNCHANGED <<now, opens, client, storeVars, pdfVars, urlVars, sessionVars, restVars>>

\* safeGetPageUrl rejected: resolvePageUrl rejects with its error
ResolveFail(r) ==
    /\ r \in DOMAIN resolves
    /\ resolves[r].pc = "fetch"
    /\ resolves' = [resolves EXCEPT ![r] = Finish(resolves[r], "failed", NoUrl, now)]
    /\ UNCHANGED <<reader, now, opens, client, storeVars, pdfVars, urlVars, sessionVars, restVars>>

\* the integers setPage and resolvePageUrl are called with
PageNumbers == {-1, 0, 1, MaxPages, MaxPages + 1}

\* setPage(n): the page, clamped to the pages of the open document
SetPage(n) ==
    /\ ReaderSteps < MaxReaderSteps
    /\ LET total == IF reader.current = NoDoc THEN 1 ELSE reader.current.pages
       IN reader' = [reader EXCEPT !.page = ClampPage(n, total)]
    /\ opens' = [opens EXCEPT !.more = @ + 1]
    /\ UNCHANGED <<now, resolves, client, storeVars, pdfVars, urlVars, sessionVars, restVars>>

\* search(q) up to its await of searchPdf for the open document, or to its
\* return when none is open
Search ==
    /\ ReaderSteps < MaxReaderSteps
    /\ opens' = [opens EXCEPT !.more = @ + 1,
                              !.searching = IF reader.current = NoDoc THEN @
                                            ELSE [@ EXCEPT ![reader.current.id] = @ + 1]]
    /\ UNCHANGED <<reader, now, resolves, client, storeVars, pdfVars, urlVars, sessionVars, restVars>>

\* searchPdf(id, q) resolved: its hits become searchHits
SearchResponse(id) ==
    /\ opens.searching[id] > 0
    /\ opens' = [opens EXCEPT !.searching[id] = @ - 1]
    /\ reader' = [reader EXCEPT !.searchHits = HitsOf(id)]
    /\ UNCHANGED <<now, resolves, client, storeVars, pdfVars, urlVars, sessionVars, restVars>>

\* searchPdf(id, q) rejected: search rejects, the store is left as it is
SearchFail(id) ==
    /\ opens.searching[id] > 0
    /\ opens' = [opens EXCEPT !.searching[id] = @ - 1]
    /\ UNCHANGED <<reader, now, resolves, client, storeVars, pdfVars, urlVars, sessionVars, restVars>>

\* time passes
Tick ==
    /\ ReaderSteps < MaxReaderSteps
    /\ now' = now + TickSeconds
    /\ UNCHANGED <<reader, resolves, opens, client, storeVars, pdfVars, urlVars, sessionVars, restVars>>

\* ------------------------------------------------------ resource API layer
\* src/lib/pdfApi.ts and the schemas of src/types/pdf.ts. A JSON value is a
\* record: t is its type, s its text (string, boolean), n ten times its
\* number (so 15 is 1.5), a the strings of an array of strings.
JV(t, s, n, a) == [t |-> t, s |-> s, n |-> n, a |-> a]
Undef == JV("undefined", "", 0, <<>>)
JNull == JV("null", "", 0, <<>>)
Str(s) == JV("string", s, 0, <<>>)
Num(n) == JV("number", "", n, <<>>)
Bool(s) == JV("boolean", s, 0, <<>>)
\* an array whose elements are all strings
Strs(a) == JV("strings", "", 0, a)
\* an array with an element that is not a string
Mixed == JV("mixed", "", 0, <<>>)
\* an array of objects, held in the elems of the response
Arr == JV("array", "", 0, <<>>)

\* the keys the endpoints read
Keys == {"id", "_id", "title", "name", "pages", "pageCount", "coverUrl",
         "thumbnailUrl", "category", "tags", "updatedAt", "pageUrls",
         "items", "nextCursor", "hits", "page", "snippet", "url", "expiresAt",
         "contentType", "width", "height", "etag", "cacheControl"}

\* the object with the keys of m, every other key being undefined
Obj(m) == [k \in Keys |-> IF k \in DOMAIN m THEN m[k] ELSE Undef]

\* an array element or a whole body: isRecord(u), and its keys if so
Rec(m) == [isRecord |-> TRUE, f |-> Obj(m)]
NotRec == [isRecord |-> FALSE, f |-> Obj(<<>>)]

\* a response body as safeJson gives it: elems are the elements of items / hits
Body(m, elems) == [isRecord |-> TRUE, f |-> Obj(m), elems |-> elems]
\* null (empty body), a text that is not JSON, or a JSON value that is no object
NotBody == [isRecord |-> FALSE, f |-> Obj(<<>>), elems |-> <<>>]

\* the texts of the model
UrlText == "http://u"
PaddedUrlText == " http://u "
DateText == "2025-01-01T00:00:00Z"
\* new Date().toISOString()
IsoNow == "2026-01-01T00:00:00.000Z"

\* s.trim()
trim(s) == IF s = PaddedUrlText THEN UrlText ELSE s

\* URL_LIKE_RE.test(v)
URL_LIKE_RE(v) == v = UrlText

\* z.string().datetime()
IsDatetime(s) == s \in {DateText, IsoNow}

\* String(idRaw) of a number or a boolean
ToText(v) ==
    IF v.t = "boolean" THEN v.s
    ELSE CASE v.n = 0 -> "0" [] v.n = 15 -> "1.5" [] v.n = 30 -> "3" [] v.n = 70 -> "7"
           [] OTHER -> "n"

\* `tmp-${index}`
TmpId(index) == IF index = 0 THEN "tmp-0" ELSE IF index = 1 THEN "tmp-1" ELSE "tmp-n"

\* a ?? b
Coalesce(a, b) == IF a.t \in {"undefined", "null"} THEN b ELSE a

\* typeof v === "string" && v.length > 0
NonEmptyString(v) == v.t = "string" /\ v.s # ""

\* ------------------------------------------------------------- schemas
\* z.string().min(1)
ZString1(v) == v.t = "string" /\ v.s # ""
\* z.string().optional()
ZOptString(v) == v.t \in {"undefined", "string"}
\* z.number().int().positive()
ZPosInt(v) == v.t = "number" /\ v.n > 0 /\ v.n % 10 = 0
\* UrlLike: z.string().min(1).transform(trim).refine(URL_LIKE_RE)
ZUrlLike(v) == v.t = "string" /\ v.s # "" /\ URL_LIKE_RE(trim(v.s))
UrlLikeOut(v) == Str(trim(v.s))
\* z.array(z.string())
ZStrings(v) == v.t = "strings"
\* z.string().datetime()
ZDatetime(v) == v.t = "string" /\ IsDatetime(v.s)

\* schema.safeParse(data) of each schema: success, and the parsed data
PdfItemSchema(e) ==
    LET f == e.f
        ok == /\ e.isRecord
              /\ ZString1(f.id)
              /\ ZString1(f.title)
              /\ ZPosInt(f.pages)
              /\ f.coverUrl.t \in {"undefined", "null"} \/ ZUrlLike(f.coverUrl)
              /\ ZOptString(f.category)
              /\ f.tags.t = "undefined" \/ ZStrings(f.tags)
              /\ ZDatetime(f.updatedAt)
    IN [success |-> ok,
        data |-> IF ~ok THEN NotRec
                 ELSE Rec([id |-> f.id, title |-> f.title, pages |-> f.pages,
                           coverUrl |-> IF f.coverUrl.t = "string"
                                        THEN UrlLikeOut(f.coverUrl) ELSE f.coverUrl,
                           category |-> f.category,
                           tags |-> IF f.tags.t = "undefined" THEN Strs(<<>>) ELSE f.tags,
                           updatedAt |-> f.updatedAt])]

ListResponseSchema(b) ==
    LET ok == /\ b.isRecord
              /\ b.f.items.t = "array"
              /\ \A i \in DOMAIN b.elems : PdfItemSchema(b.elems[i]).success
              /\ ZOptString(b.f.nextCursor)
    IN [success |-> ok,
        data |-> IF ~ok THEN NotBody
                 ELSE Body([items |-> Arr, nextCursor |-> b.f.nextCursor],
                           [i \in DOMAIN b.elems |-> PdfItemSchema(b.elems[i]).data])]

PdfDetailSchema(b) ==
    LET f == b.f
        ok == /\ b.isRecord
              /\ ZString1(f.id)
              /\ ZString1(f.title)
              /\ ZPosInt(f.pages)
              /\ ZOptString(f.category)
              /\ f.tags.t = "undefined" \/ ZStrings(f.tags)
              /\ \/ f.pageUrls.t \in {"undefined", "null"}
                 \/ /\ ZStrings(f.pageUrls)
                    /\ \A i \in DOMAIN f.pageUrls.a : ZUrlLike(Str(f.pageUrls.a[i]))
    IN [success |-> ok,
        data |-> IF ~ok THEN NotBody
                 ELSE Body([id |-> f.id, title |-> f.title, pages |-> f.pages,
                            category |-> f.category,
                            tags |-> IF f.tags.t = "undefined" THEN Strs(<<>>) ELSE f.tags,
                            pageUrls |-> IF f.pageUrls.t = "strings"
                                         THEN Strs([i \in DOMAIN f.pageUrls.a |->
                                                       trim(f.pageUrls.a[i])])
                                         ELSE f.pageUrls],
                           <<>>)]

PageUrlSchema(b) ==
    LET f == b.f
        ok == /\ b.isRecord
              /\ ZUrlLike(f.url)
              /\ f.expiresAt.t = "undefined" \/ ZDatetime(f.expiresAt)
              /\ ZOptString(f.contentType)
              /\ f.width.t = "undefined" \/ ZPosInt(f.width)
              /\ f.height.t = "undefined" \/ ZPosInt(f.height)
              /\ ZOptString(f.etag)
              /\ ZOptString(f.cacheControl)
    IN [success |-> ok,
        data |-> IF ~ok THEN NotBody
                 ELSE Body([url |-> UrlLikeOut(f.url), expiresAt |-> f.expiresAt,
                            contentType |-> f.contentType, width |-> f.width,
                            height |-> f.height, etag |-> f.etag,
                            cacheControl |-> f.cacheControl], <<>>)]

SearchHitSchema(e) ==
    LET ok == e.isRecord /\ ZPosInt(e.f.page) /\ ZOptString(e.f.snippet)
    IN [success |-> ok,
        data |-> IF ~ok THEN NotRec ELSE Rec([page |-> e.f.page, snippet |-> e.f.snippet])]

SearchResponseSchema(b) ==
    LET ok == /\ b.isRecord
              /\ b.f.hits.t = "array"
              /\ \A i \in DOMAIN b.elems : SearchHitSchema(b.elems[i]).success
    IN [success |-> ok,
        data |-> IF ~ok THEN NotBody
                 ELSE Body([hits |-> Arr],
                           [i \in DOMAIN b.elems |-> SearchHitSchema(b.elems[i]).data])]

\* ----------------------------------------------------------- normalizers
\* what parseOrThrow returns or throws: the parsed data, or an APIError
\* "Invalid API response shape" with status 200 and the flattened zod error
Parsed(data) == [kind |-> "value", status |-> 0, value |-> data, diagnostics |-> FALSE]
ShapeError == [kind |-> "APIError", status |-> 200, value |-> NotBody, diagnostics |-> TRUE]

parseOrThrow(result) == IF result.success THEN Parsed(result.data) ELSE ShapeError

coerceId(idRaw, index) ==
    IF NonEmptyString(idRaw) THEN idRaw.s
    ELSE IF idRaw.t \in {"number", "boolean"} THEN ToText(idRaw)
    ELSE TmpId(index)

\* the keys of raw if it is a record, of {} if not
RecordOf(raw) == IF raw.isRecord THEN raw.f ELSE Obj(<<>>)

\* title, pages, category and tags as normalizeItemLike and normalizeDetail
\* derive them
TitleOf_NoAlias(r) == IF NonEmptyString(r.title) THEN r.title ELSE Str("Untitled")

TitleOf(r) ==
    IF NonEmptyString(r.title) THEN r.title
    ELSE IF NonEmptyString(r.name) THEN r.name
    ELSE Str("Untitled")

PagesOf(r) ==
    LET pagesRaw == Coalesce(r.pages, r.pageCount) IN
    IF pagesRaw.t = "number" /\ pagesRaw.n > 0 THEN pagesRaw ELSE Num(10)

CategoryOf(r) == IF NonEmptyString(r.category) THEN r.category ELSE Undef

\* tags = isStringArray(r.tags) ? r.tags : [], spread only if tags.length
TagsOf(r) == IF r.tags.t = "strings" /\ Len(r.tags.a) > 0 THEN r.tags ELSE Undef

normalizeItemLike(raw, index) ==
    LET r == RecordOf(raw) IN
    Rec([id |-> Str(coerceId(Coalesce(r.id, r["_id"]), index)),
         title |-> TitleOf(r),
         pages |-> PagesOf(r),
         coverUrl |-> IF r.coverUrl.t = "string" THEN r.coverUrl
                      ELSE IF r.thumbnailUrl.t = "string" THEN r.thumbnailUrl
                      ELSE JNull,
         category |-> CategoryOf(r),
         tags |-> TagsOf(r),
         updatedAt |-> IF NonEmptyString(r.updatedAt) THEN r.updatedAt ELSE Str(IsoNow)])

\* the elements of rr.items if it is an array, of [] if not
ItemsIn(raw) ==
    IF raw.isRecord /\ raw.f.items.t = "array" THEN raw.elems ELSE <<>>

NextCursorOf(raw) ==
    LET v == RecordOf(raw).nextCursor IN IF NonEmptyString(v) THEN v ELSE Undef

\* JS indexes from 0
normalizeListResponse(raw) ==
    Body([items |-> Arr, nextCursor |-> NextCursorOf(raw)],
         [i \in DOMAIN ItemsIn(raw) |-> normalizeItemLike(ItemsIn(raw)[i], i - 1)])

\* the items of the final tolerant coercion of listPdfs
FinalItem(raw, index) ==
    LET n == normalizeItemLike(raw, index).f IN
    Rec([id |-> IF n.id.s # "" THEN n.id ELSE Str(TmpId(index)),
         title |-> IF n.title.s # "" THEN n.title ELSE Str("Untitled"),
         coverUrl |-> IF n.coverUrl.t = "string" THEN n.coverUrl ELSE JNull,
         pages |-> IF n.pages.n > 0 THEN n.pages ELSE Num(10),
         updatedAt |-> n.updatedAt,
         category |-> IF NonEmptyString(n.category) THEN n.category ELSE Undef,
         tags |-> IF n.tags.t = "strings" /\ Len(n.tags.a) > 0 THEN n.tags ELSE Undef])

FinalListResponse(raw) ==
    Body([items |-> Arr, nextCursor |-> NextCursorOf(raw)],
         [i \in DOMAIN ItemsIn(raw) |-> FinalItem(ItemsIn(raw)[i], i - 1)])

normalizeDetail(raw) ==
    LET r == RecordOf(raw) IN
    Body([id |-> Str(coerceId(Coalesce(r.id, r["_id"]), 0)),
          title |-> TitleOf(r),
          pages |-> PagesOf(r),
          pageUrls |-> IF r.pageUrls.t = "strings" THEN r.pageUrls ELSE JNull,
          category |-> CategoryOf(r),
          tags |-> TagsOf(r)],
         <<>>)

\* ------------------------------------------------------------- endpoints
\* what each endpoint makes of the body api.get resolved with
listPdfs(raw) ==
    IF ListResponseSchema(raw).success
    THEN parseOrThrow(ListResponseSchema(raw))
    ELSE IF ListResponseSchema(normalizeListResponse(raw)).success
    THEN parseOrThrow(ListResponseSchema(normalizeListResponse(raw)))
    ELSE parseOrThrow(ListResponseSchema(FinalListResponse(raw)))

getPdfDetail(raw) ==
    IF PdfDetailSchema(raw).success
    THEN parseOrThrow(PdfDetailSchema(raw))
    ELSE parseOrThrow(PdfDetailSchema(normalizeDetail(raw)))

getPageUrl(raw) == parseOrThrow(PageUrlSchema(raw))

searchPdf(raw) == parseOrThrow(SearchResponseSchema(raw))

EndpointNames == {"listPdfs", "getPdfDetail", "getPageUrl", "searchPdf"}

Handle(name, raw) ==
    CASE name = "listPdfs" -> listPdfs(raw)
      [] name = "getPdfDetail" -> getPdfDetail(raw)
      [] name = "getPageUrl" -> getPageUrl(raw)
      [] name = "searchPdf" -> searchPdf(raw)

\* schema.safeParse(data).success for the schema of the endpoint
SchemaOf(name, data) ==
    CASE name = "listPdfs" -> ListResponseSchema(data).success
      [] name = "getPdfDetail" -> PdfDetailSchema(data).success
      [] name = "getPageUrl" -> PageUrlSchema(data).success
      [] name = "searchPdf" -> SearchResponseSchema(data).success

\* the idempotentRetries of { idempotentRetries: 2, ...opts, ...extra }: a
\* later spread wins, so extra wins over opts and opts over the default
withGetDefaults(opts, extra) ==
    IF extra # Absent THEN extra
    ELSE IF opts # Absent THEN opts
    ELSE 2

\* the extra options an endpoint hands to withGetDefaults: getPageUrl passes
\* { idempotentRetries: 3 }, the other endpoints pass none
ExtraOf(name) == IF name = "getPageUrl" THEN 3 ELSE Absent

\* the idempotentRetries a caller of an endpoint passes in its fetch options
CallerOpts == {Absent, 0, 1}

\* a JS number: kind is "finite" (n is ten times its value), "NaN",
\* "Infinity" or "-Infinity"
JsNumber(kind, n) == [kind |-> kind, n |-> n]
NumberIsFinite(page) == page.kind = "finite"
\* page < k
LessThan(page, k) == (page.kind = "finite" /\ page.n < 10 * k) \/ page.kind = "-Infinity"

RejectsPage_FiniteOnly(page) == ~NumberIsFinite(page)

\* if (!Number.isFinite(page) || page < 1)
RejectsPage(page) == ~NumberIsFinite(page) \/ LessThan(page, 1)

\* the page arguments callers pass: -1, 0, 0.5, 1, 1.5, 2, NaN and the infinities
PageArgs ==
    {JsNumber("finite", n) : n \in {-10, 0, 5, 10, 15, 20}}
        \cup {JsNumber(k, 0) : k \in {"NaN", "Infinity", "-Infinity"}}
NoPage == JsNumber("finite", 10)

\* encodeURIComponent(page) of a page that is not rejected
PageText(page) ==
    CASE page.n = 10 -> <<"1">>
      [] page.n = 15 -> <<"1", ".", "5">>
      [] page.n = 20 -> <<"2">>
      [] OTHER -> <<"0">>

\* the path of the request, relative to the base URL
EndpointPath(name, page) ==
    IF name = "getPageUrl" THEN <<"/", "p", "/">> \o PageText(page) ELSE <<"/", "p">>

\* ------------------------------------------------------ response bodies
\* Largest number of elements of items / hits in a response.
MaxItems == 2

GoodItem ==
    [id |-> Str("X"), title |-> Str("T"), pages |-> Num(30), coverUrl |-> Str(UrlText),
     tags |-> Strs(<<"g">>), updatedAt |-> Str(DateText)]

\* the elements a backend may send in items
ItemSamples ==
    {Rec(GoodItem),
     Rec(("_id" :> Num(70)) @@ [name |-> Str("T"), pageCount |-> Num(30),
                                thumbnailUrl |-> Str(PaddedUrlText)]),
     Rec([GoodItem EXCEPT !.title = Undef, !.id = Undef] @@ [name |-> Str("N")]),
     Rec(<<>>),
     NotRec,
     Rec([GoodItem EXCEPT !.pages = Num(15)]),
     Rec([GoodItem EXCEPT !.coverUrl = Str("X")]),
     Rec([GoodItem EXCEPT !.updatedAt = Str("X")]),
     Rec([GoodItem EXCEPT !.tags = Mixed, !.title = Str("")])}

HitSamples ==
    {Rec([page |-> Num(30), snippet |-> Str("X")]),
     Rec([page |-> Num(0)]),
     NotRec}

ElemsOf(samples) == UNION {[1..k -> samples] : k \in 0..MaxItems}

GoodDetail ==
    [id |-> Str("X"), title |-> Str("T"), pages |-> Num(30),
     pageUrls |-> Strs(<<UrlText, PaddedUrlText>>)]

GoodPageUrl == [url |-> Str(UrlText), expiresAt |-> Str(DateText)]

\* the bodies safeJson can give each endpoint for a 2xx response
Bodies(name) ==
    CASE name = "listPdfs" ->
            {NotBody, Body(<<>>, <<>>), Body([items |-> Str("X")], <<>>)}
                \cup {Body([items |-> Arr, nextCursor |-> c], e) :
                         c \in {Undef, Str("c"), Num(30)}, e \in ElemsOf(ItemSamples)}
      [] name = "getPdfDetail" ->
            {NotBody, Body(<<>>, <<>>), Body(GoodDetail, <<>>),
             Body(("_id" :> Bool("true")) @@ [name |-> Str("T"), pageCount |-> Num(30),
                                              category |-> JNull], <<>>),
             Body([GoodDetail EXCEPT !.pages = Num(15)], <<>>),
             Body([GoodDetail EXCEPT !.pageUrls = Strs(<<"X">>)], <<>>),
             Body([GoodDetail EXCEPT !.pageUrls = Mixed], <<>>),
             Body([GoodDetail EXCEPT !.pageUrls = JNull], <<>>)}
      [] name = "getPageUrl" ->
            {NotBody, Body(<<>>, <<>>), Body(GoodPageUrl, <<>>),
             Body([url |-> Str(PaddedUrlText)], <<>>),
             Body([url |-> Str("X")], <<>>),
             Body([GoodPageUrl EXCEPT !.expiresAt = Str("X")], <<>>),
             Body([url |-> Str(UrlText), width |-> Num(15)], <<>>)}
      [] name = "searchPdf" ->
            {NotBody, Body(<<>>, <<>>)}
                \cup {Body([hits |-> Arr], e) : e \in ElemsOf(HitSamples)}

\* -------------------------------------------------------- endpoint calls
NoResult == [kind |-> "none", status |-> 0, value |-> NotBody, diagnostics |-> FALSE]

\* throw new APIError("Page must be an integer >= 1", { status: 400, url })
PageError == [kind |-> "APIError", status |-> 400, value |-> NotBody, diagnostics |-> FALSE]

\* what api.get rejected with
Rejected(outcome) ==
    [kind |-> outcome.kind, status |-> outcome.status, value |-> NotBody, diagnostics |-> FALSE]

\* one call of an endpoint of pdfApi.ts, before its first statement
NewEndpoint(name, page, opts) ==
    [name |-> name, page |-> page, opts |-> opts, pc |-> "called",
     raw |-> NotBody, result |-> NoResult]

IdleEndpoint == [NewEndpoint("listPdfs", NoPage, Absent) EXCEPT !.pc = "idle"]

\* the resource API layer while the model looks at other modules
PdfIdle == endpoint = IdleEndpoint

\* the endpoint up to its await of api.get: getPageUrl rejects a page that is
\* not a finite number >= 1 before it builds the request
EndpointCall ==
    /\ endpoint.pc = "called"
    /\ IF endpoint.name = "getPageUrl" /\ RejectsPage(endpoint.page)
       THEN /\ endpoint' = [endpoint EXCEPT !.pc = "done", !.result = PageError]
            /\ UNCHANGED calls
       ELSE /\ endpoint' = [endpoint EXCEPT !.pc = "awaitGet"]
            /\ calls' = [calls EXCEPT ![1] =
                   NewCall(EndpointPath(endpoint.name, endpoint.page), "GET",
                           TRUE, TRUE, TRUE,
                           withGetDefaults(endpoint.opts, ExtraOf(endpoint.name)))]
    /\ UNCHANGED <<token, refreshPromise, refreshes, timers, backend,
                   storeVars, readerVars, urlVars, sessionVars, restVars>>

\* apiFetch returned the response, getJSON read its body and the endpoint
\* validated it
EndpointReturn ==
    /\ endpoint.pc = "awaitGet"
    /\ calls[1].pc = "done"
    /\ calls[1].outcome.kind = "returned"
    /\ \E raw \in Bodies(endpoint.name) :
          endpoint' = [endpoint EXCEPT !.pc = "done", !.raw = raw,
                                      !.result = Handle(endpoint.name, raw)]
    /\ UNCHANGED <<client, storeVars, readerVars, urlVars, sessionVars, restVars>>

\* apiFetch returned the response and res.text() rejected
EndpointBodyFail ==
    /\ endpoint.pc = "awaitGet"
    /\ calls[1].pc = "done"
    /\ calls[1].outcome.kind = "returned"
    /\ endpoint' = [endpoint EXCEPT !.pc = "done",
                       !.result = [NoResult EXCEPT !.kind = "TypeError"]]
    /\ UNCHANGED <<client, storeVars, readerVars, urlVars, sessionVars, restVars>>

\* apiFetch threw, and the endpoint lets the error through
EndpointThrow ==
    /\ endpoint.pc = "awaitGet"
    /\ calls[1].pc = "done"
    /\ calls[1].outcome.kind # "returned"
    /\ endpoint' = [endpoint EXCEPT !.pc = "done", !.result = Rejected(calls[1].outcome)]
    /\ UNCHANGED <<client, storeVars, readerVars, urlVars, sessionVars, restVars>>

\* -------------------------------------------------------- URL resolution
\* Longest target passed to toURL.
MaxTargetLen == 5

\* the values env.API_BASE_URL is configured with: valid URLs, with and
\* without trailing slashes and a path
BaseUrls ==
    {<<"m", ":", "/", "/", "b">>, <<"m", ":", "/", "/", "b", "/">>,
     <<"m", ":", "/", "/", "b", "/", "/">>, <<"m", ":", "/", "/", "b", "/", "a", "/">>}

\* the targets callers pass: every text of these characters
TargetChars == {"a", "1", ":", "/"}
Targets == UNION {[1..n -> TargetChars] : n \in 0..MaxTargetLen}

NewResolution(base, input) ==
    [pc |-> "start", base |-> base, input |-> input, url |-> <<>>, again |-> <<>>]

IdleResolution == [NewResolution(BASE_URL, <<>>) EXCEPT !.pc = "idle"]

UrlIdle == resolution = IdleResolution

\* const url = toURL(input)
ToURL ==
    /\ resolution.pc = "start"
    /\ resolution' = [resolution EXCEPT !.pc = "resolved",
                          !.url = toURLWith(resolution.base, resolution.input)]
    /\ UNCHANGED <<client, storeVars, readerVars, pdfVars, sessionVars, restVars>>

\* the resolved URL passed to toURL once more
ToURLAgain ==
    /\ resolution.pc = "resolved"
    /\ resolution' = [resolution EXCEPT !.pc = "again",
                          !.again = toURLWith(resolution.base, resolution.url)]
    /\ UNCHANGED <<client, storeVars, readerVars, pdfVars, sessionVars, restVars>>

\* -------------------------------------------------------- session helpers
\* loginWithPassword and clearSession of queries.ts. clearedAt is the number
\* of refreshes started before TokenStore.clear() ran; loginAfterClear says
\* that a login stored its token after that.
\* the accessToken the login endpoint answers with
LoginToken == NewToken(NCalls + 1)

IdleSession ==
    [logout |-> "idle", answer |-> "none", clearedAt |-> 0, login |-> "idle",
     loginAfterClear |-> FALSE]

SessionIdle == authSession = IdleSession

\* TokenStore.clear()
TokenStoreClear(stored) == Null

\* clearSession up to its fetch: await TokenStore.clear(), then POST /auth/logout
ClearSession ==
    /\ authSession.logout = "idle"
    /\ token' = TokenStoreClear(token)
    /\ authSession' = [authSession EXCEPT !.logout = "posted", !.clearedAt = Len(refreshes),
                                  !.loginAfterClear = FALSE]
    /\ UNCHANGED <<calls, refreshPromise, refreshes, timers, backend,
                   storeVars, readerVars, pdfVars, urlVars, restVars>>

\* what POST /auth/logout comes to: a 2xx, another status, a transport failure
LogoutAnswers == {"204", "500", "failed"}

CatchLogout_Rethrow(answer) == IF answer = "failed" THEN "threw" ELSE "done"

\* the try/catch around the logout request: the status is only logged and a
\* rejection is caught, so clearSession resolves whatever the answer
CatchLogout(answer) == "done"

\* the logout request is answered or fails: both are ignored
LogoutSettled(answer) ==
    /\ authSession.logout = "posted"
    /\ authSession' = [authSession EXCEPT !.logout = CatchLogout(answer), !.answer = answer]
    /\ UNCHANGED <<client, storeVars, readerVars, pdfVars, urlVars, restVars>>

\* loginWithPassword up to its fetch
LoginStart ==
    /\ authSession.login = "idle"
    /\ authSession' = [authSession EXCEPT !.login = "posted"]
    /\ UNCHANGED <<client, storeVars, readerVars, pdfVars, urlVars, restVars>>

\* the login request is answered: a response that is not ok, or whose body
\* has no accessToken, throws APIError; else the token is about to be stored
LoginResponse(answer) ==
    /\ authSession.login = "posted"
    /\ authSession' = [authSession EXCEPT !.login = IF answer = "token" THEN "store" ELSE "failed"]
    /\ UNCHANGED <<client, storeVars, readerVars, pdfVars, urlVars, restVars>>

\* await TokenStore.set(token)
LoginStored ==
    /\ authSession.login = "store"
    /\ token' = TokenStoreSet(token, LoginToken)
    /\ authSession' = [authSession EXCEPT !.login = "done",
                                  !.loginAfterClear = authSession.logout # "idle"]
    /\ UNCHANGED <<calls, refreshPromise, refreshes, timers, backend,
                   storeVars, readerVars, pdfVars, urlVars, restVars>>

\* the reader store as created, with no call made
ReaderIdle ==
    /\ reader = [current |-> NoDoc, pageCache |-> EmptyCache, page |-> 1,
                 searchHits |-> NoHits]
    /\ now = 0
    /\ resolves = <<>>
    /\ opens = [count |-> 0, pending |-> [id \in Docs |-> 0], last |-> NoDoc.id,
                failed |-> FALSE, more |-> 0, searching |-> [id \in Docs |-> 0]]

\* the Token Store while the model looks at other modules
StoreIdle ==
    /\ secure = IdleStore
    /\ tokenUse = NoUse

\* ----------------------------------------------------------- library store
\* The library store of src/unnamed/part_009 (useLibrary): the list of
\* documents under the current filters and the listPdfs requests awaited.
\* query, category and tag are always assigned together, from the same call:
\* one filter value stands for the three.
Filters == {"", "b"}
\* Number of refresh and fetchNext calls of one run.
MaxLibraryCalls == 4

\* the ids of the documents the backend lists under a filter, in order
Matches(f) == IF f = "" THEN <<1, 2, 3>> ELSE <<1, 3>>

\* nextCursor: undefined
NoCursor == <<>>

\* the page of one document the backend answers listPdfs(cursor, filter)
\* with: the first page of the filter without a cursor, else the page the
\* cursor stands for; its nextCursor while documents are left
ListPage(cursor, f) ==
    LET of == IF cursor = NoCursor THEN f ELSE cursor[1]
        k == IF cursor = NoCursor THEN 1 ELSE cursor[2]
    IN [items |-> <<Matches(of)[k]>>,
        nextCursor |-> IF k < Len(Matches(of)) THEN <<of, k + 1>> ELSE NoCursor]

\* Array.from(new Map(merged.map(it => [it.id, it])).values()): one entry per
\* id, at the place of its first occurrence
RECURSIVE uniqueById(_)
uniqueById(merged) ==
    IF merged = <<>> THEN <<>>
    ELSE LET front == uniqueById(SubSeq(merged, 1, Len(merged) - 1))
             it == merged[Len(merged)]
         IN IF \E i \in DOMAIN front : front[i] = it THEN front ELSE Append(front, it)

\* the store as created, with no call made
NewLibrary ==
    [items |-> <<>>, nextCursor |-> NoCursor, loading |-> FALSE, hasMore |-> FALSE,
     filter |-> "", inflight |-> <<>>, calls |-> 0]

\* the library store while the model looks at other modules
LibraryIdle == library = NewLibrary

\* s without its i-th element
Without(s, i) == SubSeq(s, 1, i - 1) \o SubSeq(s, i + 1, Len(s))

\* refresh(opts) up to its await of listPdfs: reset the list unless a request
\* is loading, in which case only the filters are synced
LibraryRefresh(f) ==
    /\ library.calls < MaxLibraryCalls
    /\ LET synced == IF ~library.loading
                     THEN [library EXCEPT !.loading = TRUE, !.items = <<>>,
                                          !.nextCursor = NoCursor, !.hasMore = FALSE,
                                          !.filter = f]
                     ELSE [library EXCEPT !.filter = f]
       IN library' = [synced EXCEPT
              !.inflight = Append(@, [op |-> "refresh", filter |-> f, cursor |-> NoCursor]),
              !.calls = @ + 1]
    /\ UNCHANGED <<client, storeVars, readerVars, pdfVars, urlVars, sessionVars, tabVars>>

\* fetchNext() up to its await of listPdfs: return at once while loading or
\* without a cursor, else ask for the page of the snapshot's cursor and filters
LibraryFetchNext ==
    /\ library.calls < MaxLibraryCalls
    /\ IF library.loading \/ library.nextCursor = NoCursor
       THEN library' = [library EXCEPT !.calls = @ + 1]
       ELSE library' = [library EXCEPT
                !.loading = TRUE,
                !.inflight = Append(@, [op |-> "fetchNext", filter |-> library.filter,
                                        cursor |-> library.nextCursor]),
                !.calls = @ + 1]
    /\ UNCHANGED <<client, storeVars, readerVars, pdfVars, urlVars, sessionVars, tabVars>>

\* listPdfs resolved for the i-th request awaited: refresh replaces the list
\* and restores its own filters, fetchNext merges its page into the list of now
LibraryResponse(i) ==
    /\ i \in DOMAIN library.inflight
    /\ LET rq == library.inflight[i]
           res == ListPage(rq.cursor, rq.filter)
           left == [library EXCEPT !.inflight = Without(@, i)]
       IN library' =
            IF rq.op = "refresh"
            THEN [left EXCEPT !.items = res.items, !.nextCursor = res.nextCursor,
                              !.hasMore = res.nextCursor # NoCursor, !.loading = FALSE,
                              !.filter = rq.filter]
            ELSE [left EXCEPT !.items = uniqueById(left.items \o res.items),
                              !.nextCursor = res.nextCursor,
                              !.hasMore = res.nextCursor # NoCursor, !.loading = FALSE]
    /\ UNCHANGED <<client, storeVars, readerVars, pdfVars, urlVars, sessionVars, tabVars>>

\* listPdfs rejected for the i-th request awaited: the catch of either call
LibraryFailure(i) ==
    /\ i \in DOMAIN library.inflight
    /\ library' = [library EXCEPT !.inflight = Without(@, i), !.loading = FALSE]
    /\ UNCHANGED <<client, storeVars, readerVars, pdfVars, urlVars, sessionVars, tabVars>>

\* ------------------------------------------------------------ browser tabs
\* Tabs of one browser, each running its own copy of src/lib/secure-store.ts
\* on the web, joined by the BroadcastChannel "secure-store/auth-token".
Tabs == {1, 2}

\* the tabs as loaded: nothing stored, nothing posted
IdleTabs ==
    [store |-> [t \in Tabs |-> NewStore("webMemory", TRUE, Null, Null, Null)],
     inbox |-> [t \in Tabs |-> <<>>],
     ops |-> 0]

\* the tabs while the model looks at other modules
TabsIdle == tabs = IdleTabs

\* Number of set and clear calls the tabs make in one run.
MaxTabOps == 3

\* the channel hands what tab t posted during a call (the values its store
\* posted beyond those of `before`) to every other tab, in posting order
Delivered(inbox, t, before, after) ==
    [u \in Tabs |->
        IF u = t THEN inbox[u]
        ELSE inbox[u] \o SubSeq(after.posted, Len(before.posted) + 1, Len(after.posted))]

\* tab t calls TokenStore.set(x): secure.setItemAsync(ACCESS_TOKEN_KEY, x)
TabSet(t, x) ==
    /\ tabs.ops < MaxTabOps
    /\ LET after == setItemAsync(tabs.store[t], x, "yes", FALSE)
       IN tabs' = [store |-> [tabs.store EXCEPT ![t] = after],
                   inbox |-> Delivered(tabs.inbox, t, tabs.store[t], after),
                   ops |-> tabs.ops + 1]
    /\ UNCHANGED <<client, storeVars, readerVars, pdfVars, urlVars, sessionVars, libraryVars>>

\* tab t calls TokenStore.clear(): secure.deleteItemAsync(ACCESS_TOKEN_KEY)
TabClear(t) ==
    /\ tabs.ops < MaxTabOps
    /\ LET after == deleteItemAsync(tabs.store[t], "yes", FALSE)
       IN tabs' = [store |-> [tabs.store EXCEPT ![t] = after],
                   inbox |-> Delivered(tabs.inbox, t, tabs.store[t], after),
                   ops |-> tabs.ops + 1]
    /\ UNCHANGED <<client, storeVars, readerVars, pdfVars, urlVars, sessionVars, libraryVars>>

\* the oldest message waiting for tab t is dispatched to its bc.onmessage
TabDeliver(t) ==
    /\ tabs.inbox[t] # <<>>
    /\ tabs' = [tabs EXCEPT !.store[t] = onmessage(@, Head(tabs.inbox[t]), FALSE),
                            !.inbox[t] = Tail(@)]
    /\ UNCHANGED <<client, storeVars, readerVars, pdfVars, urlVars, sessionVars, libraryVars>>

\* what TokenStore.get() returns in tab t
TabGet(t) == getItemAsync(tabs.store[t], "yes", FALSE).value

\* the stores of the screens and the other tabs while the model looks elsewhere
RestIdle ==
    /\ LibraryIdle
    /\ TabsIdle

\* the other modules while the model looks at the API client
OthersIdle ==
    /\ StoreIdle
    /\ ReaderIdle
    /\ PdfIdle
    /\ UrlIdle
    /\ SessionIdle
    /\ RestIdle

\* the API client while the model looks at another module
ClientIdle ==
    /\ calls = [c \in Calls |-> UnusedCall]
    /\ token = Null
    /\ refreshPromise = Null
    /\ refreshes = <<>>
    /\ timers = {}
    /\ backend = {}

\* ---------------------------------------------------------- specifications
TypeOK ==
    /\ token \in {Null, InitialToken, LoginToken} \cup {NewToken(i) : i \in 1..NCalls}
    /\ refreshPromise \in {Null} \cup DOMAIN refreshes
    /\ \A c \in Calls : calls[c].pc \in
           {"unused", "init", "fetch", "awaitRefresh", "backoff", "errorBody", "done"}

\* several calls at once, as a screen issues them
Init ==
    /\ calls = [c \in Calls |-> ScreenCall(c)]
    /\ token \in {Null, InitialToken}
    /\ refreshPromise = Null
    /\ refreshes = <<>>
    /\ timers = {}
    /\ backend = FewStatuses
    /\ OthersIdle

\* one call, with every input and option
InitOne ==
    /\ \E cr \in AllCalls : calls = [c \in Calls |-> IF c = 1 THEN cr ELSE UnusedCall]
    /\ token \in {Null, InitialToken}
    /\ refreshPromise = Null
    /\ refreshes = <<>>
    /\ timers = {}
    /\ backend = ServerStatuses
    /\ OthersIdle

Next ==
    \/ \E c \in Calls : ApiFetchStart(c)
    \/ \E c \in Calls, s \in backend : InitialResponse(c, s)
    \/ \E c \in Calls, s \in backend : RetryResponse(c, s)
    \/ \E c \in Calls : BackoffElapsed(c)
    \/ \E c \in Calls, s \in backend : BackoffResponse(c, s)
    \/ \E c \in Calls, k \in 1..(MaxRetries + 2) : FetchTimeout(c, k)
    \/ \E c \in Calls : FetchFail(c)
    \/ \E c \in Calls : ErrorBodyRead(c)
    \/ \E c \in Calls : ErrorBodyFail(c)
    \/ \E i \in 1..NCalls, ok \in BOOLEAN : RefreshResponse(i, ok)
    \/ \E i \in 1..NCalls : RefreshFail(i)
    \/ \E i \in 1..NCalls : \E t \in {NewToken(i), Null, Empty} : RefreshBody(i, t)
    \/ \E i \in 1..NCalls : RefreshBodyFail(i)
    \/ \E i \in 1..NCalls : RefreshStored(i)

Spec == Init /\ [][Next]_vars

SpecOne == InitOne /\ [][Next]_vars

\* what the event loop guarantees while the server may leave any request
\* unanswered: a runnable continuation runs, an armed timer fires (the abort
\* timer of fetchWithTimeout, the backoff timer), a body whose response has
\* arrived is read to its end or fails, and TokenStore.set completes.
\* Nothing is assumed about the answer to a request.
TimersAndTasks ==
    /\ \A c \in Calls :
          /\ WF_vars(ApiFetchStart(c))
          /\ WF_vars(BackoffElapsed(c))
          /\ WF_vars(\E k \in 1..(MaxRetries + 2) : FetchTimeout(c, k))
          /\ WF_vars(ErrorBodyRead(c) \/ ErrorBodyFail(c))
    /\ \A i \in 1..NCalls :
          /\ WF_vars((\E t \in {NewToken(i), Null, Empty} : RefreshBody(i, t))
                        \/ RefreshBodyFail(i))
          /\ WF_vars(RefreshStored(i))

\* the calls of a screen under fair scheduling of timers and tasks
SpecLive == Init /\ [][Next]_vars /\ TimersAndTasks

\* a call that carries the caller's AbortSignal
WithSignal(cr, hasAny) == [cr EXCEPT !.signal = "live", !.hasAny = hasAny]

\* two calls of a screen, the first of which the screen can cancel, on a
\* platform with or without AbortSignal.any
InitAbort ==
    /\ \E hasAny \in BOOLEAN :
          calls = [c \in Calls |-> IF c = 1 THEN WithSignal(ScreenCall(c), hasAny)
                                   ELSE IF c = 2 THEN [ScreenCall(c) EXCEPT !.hasAny = hasAny]
                                   ELSE UnusedCall]
    /\ token \in {Null, InitialToken}
    /\ refreshPromise = Null
    /\ refreshes = <<>>
    /\ timers = {}
    /\ backend = FewStatuses
    /\ OthersIdle

NextAbort ==
    \/ Next
    \/ \E c \in Calls : CallerAbort(c)

SpecAbort == InitAbort /\ [][NextAbort]_vars

\* the Token Store in each backing mode: on the web with or without a
\* BroadcastChannel, with what an earlier page load or run left in the backing
\* storage (hydrateFromSessionStorage copies it to memory unless the read throws)
InitStore ==
    /\ ClientIdle
    /\ \E mode \in StoreModes, hasBC \in BOOLEAN, left \in {Null, InitialToken},
          hydrated \in BOOLEAN :
          secure = NewStore(mode,
                            hasBC /\ mode # "native",
                            IF mode = "webSession" THEN left ELSE Null,
                            IF mode = "webSession" /\ hydrated THEN left ELSE Null,
                            IF mode = "native" THEN left ELSE Null)
    /\ tokenUse = NoUse
    /\ ReaderIdle
    /\ PdfIdle
    /\ UrlIdle
    /\ SessionIdle
    /\ RestIdle

NextStore ==
    \/ \E x \in StoreValues, probe \in Probes, throws \in BOOLEAN : StoreSet(x, probe, throws)
    \/ \E probe \in Probes, throws \in BOOLEAN : StoreClear(probe, throws)
    \/ \E probe \in Probes, throws \in BOOLEAN : StoreGet(probe, throws)
    \/ \E value \in StoreValues, throws \in BOOLEAN : TabMessage(value, throws)

SpecStore == InitStore /\ [][NextStore]_vars

\* the reader screen: documents are opened and pages resolved as time passes
InitReader ==
    /\ ClientIdle
    /\ StoreIdle
    /\ ReaderIdle
    /\ PdfIdle
    /\ UrlIdle
    /\ SessionIdle
    /\ RestIdle

NextReader ==
    \/ \E id \in Docs : Open(id)
    \/ \E id \in Docs : \E detail \in Details(id) : OpenResponse(id, detail)
    \/ \E id \in Docs : OpenFail(id)
    \/ \E n \in {1, MaxPages + 1} : Resolve(n)
    \/ \E r \in 1..MaxReaderSteps, signed \in BOOLEAN : ResolveResponse(r, signed)
    \/ \E r \in 1..MaxReaderSteps : ResolveFail(r)
    \/ Tick

SpecReader == InitReader /\ [][NextReader]_vars

\* the reader screen with its page control and its search box; the clock stands
NextViewer ==
    \/ \E id \in Docs : Open(id)
    \/ \E id \in Docs : \E detail \in Details(id) : OpenResponse(id, detail)
    \/ \E id \in Docs : OpenFail(id)
    \/ \E n \in PageNumbers : Resolve(n)
    \/ \E r \in 1..MaxReaderSteps : ResolveResponse(r, FALSE)
    \/ \E r \in 1..MaxReaderSteps : ResolveFail(r)
    \/ \E n \in PageNumbers : SetPage(n)
    \/ Search
    \/ \E id \in Docs : SearchResponse(id)
    \/ \E id \in Docs : SearchFail(id)

SpecViewer == InitReader /\ [][NextViewer]_vars

\* one call of an endpoint of the resource API layer, carried by the API client
InitPdf ==
    /\ calls = [c \in Calls |-> UnusedCall]
    /\ token \in {Null, InitialToken}
    /\ refreshPromise = Null
    /\ refreshes = <<>>
    /\ timers = {}
    /\ backend = FewStatuses
    /\ StoreIdle
    /\ ReaderIdle
    /\ UrlIdle
    /\ SessionIdle
    /\ RestIdle
    /\ \E name \in EndpointNames :
          \E page \in (IF name = "getPageUrl" THEN PageArgs ELSE {NoPage}) :
             \E opts \in CallerOpts :
                endpoint = NewEndpoint(name, page, opts)

NextPdf ==
    \/ Next
    \/ EndpointCall
    \/ EndpointReturn
    \/ EndpointBodyFail
    \/ EndpointThrow

SpecPdf == InitPdf /\ [][NextPdf]_vars

\* toURL applied to each target under each configured base URL, and to its
\* own result
InitUrl ==
    /\ ClientIdle
    /\ StoreIdle
    /\ ReaderIdle
    /\ PdfIdle
    /\ SessionIdle
    /\ RestIdle
    /\ \E base \in BaseUrls, input \in Targets : resolution = NewResolution(base, input)

NextUrl ==
    \/ ToURL
    \/ ToURLAgain

SpecUrl == InitUrl /\ [][NextUrl]_vars

\* one call of a screen while the user logs in and out
InitSession ==
    /\ calls = [c \in Calls |-> IF c = 1 THEN ScreenCall(c) ELSE UnusedCall]
    /\ token \in {Null, InitialToken}
    /\ refreshPromise = Null
    /\ refreshes = <<>>
    /\ timers = {}
    /\ backend = FewStatuses
    /\ StoreIdle
    /\ ReaderIdle
    /\ PdfIdle
    /\ UrlIdle
    /\ SessionIdle
    /\ RestIdle

NextSession ==
    \/ Next
    \/ ClearSession
    \/ \E answer \in LogoutAnswers : LogoutSettled(answer)
    \/ LoginStart
    \/ \E answer \in {"token", "notOk", "noToken"} : LoginResponse(answer)
    \/ LoginStored

SpecSession == InitSession /\ [][NextSession]_vars

\* a library screen: refresh and fetchNext calls, answered in any order
InitLibrary ==
    /\ ClientIdle
    /\ StoreIdle
    /\ ReaderIdle
    /\ PdfIdle
    /\ UrlIdle
    /\ SessionIdle
    /\ LibraryIdle
    /\ TabsIdle

NextLibrary ==
    \/ \E f \in Filters : LibraryRefresh(f)
    \/ LibraryFetchNext
    \/ \E i \in 1..MaxLibraryCalls : LibraryResponse(i)
    \/ \E i \in 1..MaxLibraryCalls : LibraryFailure(i)

SpecLibrary == InitLibrary /\ [][NextLibrary]_vars

\* the tabs of one browser on the web build, with or without sessionStorage
\* persistence, setting and clearing the token
InitTabs ==
    /\ ClientIdle
    /\ StoreIdle
    /\ ReaderIdle
    /\ PdfIdle
    /\ UrlIdle
    /\ SessionIdle
    /\ LibraryIdle
    /\ \E mode \in {"webMemory", "webSession"} :
          tabs = [IdleTabs EXCEPT
                     !.store = [t \in Tabs |-> NewStore(mode, TRUE, Null, Null, Null)]]

NextTabs ==
    \/ \E t \in Tabs, x \in {InitialToken, NewToken(1)} : TabSet(t, x)
    \/ \E t \in Tabs : TabClear(t)
    \/ \E t \in Tabs : TabDeliver(t)

SpecTabs == InitTabs /\ [][NextTabs]_vars



\* ------------------------------------------------------------------ claims
\* the calls that decided a refresh is needed (a 401 on the first response with
\* retryOn401) and called the Refresh Coordinator
Deciders == {c \in Calls : calls[c].refreshCalls > 0}

Observed(c) == calls[c].observed

\* C1 (as amended): calls whose 401 is handled while a refresh is in flight
\* share that refresh. The refresh endpoint is invoked once for each call that
\* found the coordinator idle and never for a call that found a refresh
\* pending, so exactly once when every call decided before the first refresh
\* settled; the calls that share a refresh observe the same token (or the same
\* null), which is the value that refresh returned.
C1_SharedRefresh ==
    /\ refreshCount = Cardinality({c \in Deciders : ~calls[c].sawPending})
    /\ \A c \in Deciders : calls[c].sawPending =>
           \E d \in Deciders \ {c} : calls[d].refreshId = calls[c].refreshId
    /\ (\A c, d \in Deciders : calls[c].refreshId = calls[d].refreshId) =>
           refreshCount <= 1
    /\ \A c \in Deciders : Observed(c) =>
           /\ ~Pending(calls[c].refreshId)
           /\ calls[c].next = refreshes[calls[c].refreshId].next
    /\ \A c, d \in Deciders :
           Observed(c) /\ Observed(d) /\ calls[c].refreshId = calls[d].refreshId =>
               calls[c].next = calls[d].next

\* C1 witness: every call decided a refresh, all share the one refresh request
\* and all have observed the token it minted.
C1_Witness ==
    /\ NCalls >= 2
    /\ Deciders = Calls
    /\ refreshCount = 1
    /\ \A c \in Calls : Observed(c) /\ calls[c].refreshId = 1 /\ calls[c].next = NewToken(1)
    /\ \E c \in Calls : calls[c].sawPending

\* C1 as stated: whenever all N calls got a 401 on their first response and
\* have observed a refresh result, the refresh endpoint was invoked exactly
\* once and all observed the same value, whatever the interleaving.
C1_Original ==
    (Deciders = Calls /\ \A c \in Calls : Observed(c)) =>
        /\ refreshCount = 1
        /\ \A c, d \in Calls : calls[c].next = calls[d].next

\* C2: when a refresh settles, whatever its outcome, refreshPromise is null
\* again; and a 401 handled when no refresh is pending issues exactly one new
\* refresh request, which becomes the coordinator's promise.
C2_IdleAfterSettle ==
    [][ /\ \A i \in DOMAIN refreshes :
               (Pending(i) /\ refreshes'[i].pc = "done") => refreshPromise' = Null
        /\ \A c \in Calls :
               (calls[c].refreshCalls = 0 /\ calls'[c].refreshCalls > 0
                    /\ PendingRefreshes = {}) =>
                   /\ Len(refreshes') = Len(refreshes) + 1
                   /\ refreshPromise' = Len(refreshes')
                   /\ calls'[c].refreshId = Len(refreshes')
                   /\ refreshes'[Len(refreshes')].pc = "fetch" ]_vars

\* C2 witness: a first refresh has failed (null), and a later 401 has started
\* a second refresh that a call awaits.
C2_Witness ==
    /\ refreshCount = 2
    /\ ~Pending(1)
    /\ refreshes[1].next = Null
    /\ Pending(2)
    /\ refreshPromise = 2
    /\ \E c \in Calls : calls[c].pc = "awaitRefresh" /\ calls[c].refreshId = 2

\* C3: at most one refresh is pending (request in flight, body being read or
\* token being written), and refreshPromise is non-null exactly then, and is
\* that refresh's promise.
C3_SingleFlight ==
    /\ Cardinality(PendingRefreshes) <= 1
    /\ (refreshPromise # Null) <=> (PendingRefreshes # {})
    /\ refreshPromise # Null => PendingRefreshes = {refreshPromise}

\* C3 witness: a refresh is writing its token while two calls await it.
C3_Witness ==
    /\ refreshPromise # Null
    /\ refreshes[refreshPromise].pc = "store"
    /\ Cardinality({c \in Calls : calls[c].pc = "awaitRefresh"
                                  /\ calls[c].refreshId = refreshPromise}) >= 2

\* the attempts of a call that were issued in a phase
Attempts(cr, phase) == {j \in 1..Len(cr.log) : cr.log[j].phase = phase}

Is401(a) == a.result = "response" /\ a.status = 401

\* C4: a call invokes the Refresh Coordinator at most once and re-issues the
\* request at most once, exactly when the refresh yielded a token; a 401 on
\* the re-issued request is the call's final response: no further attempt, no
\* second refresh, and the call returns it or throws APIError 401.
C4_RefreshOnce ==
    \A c \in Calls :
        LET cr == calls[c] IN
        /\ cr.refreshCalls <= 1
        /\ Cardinality(Attempts(cr, "retry401")) <= 1
        /\ Attempts(cr, "retry401") # {} <=> (cr.observed /\ Truthy(cr.next))
        /\ \A j \in Attempts(cr, "retry401") :
               /\ j = 2
               /\ Is401(cr.log[1])
               /\ Is401(cr.log[j]) =>
                      /\ Len(cr.log) = 2
                      /\ cr.waits = <<>>
                      /\ cr.res = 401
                      /\ cr.pc \in {"errorBody", "done"}
                      /\ cr.pc = "done" =>
                             IF cr.throwOnHTTPError
                             THEN \/ cr.outcome.kind = "APIError" /\ cr.outcome.status = 401
                                  \/ cr.outcome.kind = "TypeError"
                             ELSE cr.outcome.kind = "returned" /\ cr.outcome.status = 401

\* C4 witness: a GET with backoff retries left got a second 401 on the
\* re-issued request and threw APIError 401 after two attempts.
C4_Witness ==
    \E c \in Calls :
        LET cr == calls[c] IN
        /\ cr.pc = "done"
        /\ MethodOf(cr.initMethod) = "GET"
        /\ cr.remaining > 0
        /\ Len(cr.log) = 2
        /\ Is401(cr.log[1]) /\ Is401(cr.log[2])
        /\ cr.outcome.kind = "APIError" /\ cr.outcome.status = 401

\* C5: once the refresh a call awaited yielded a token, every later attempt of
\* the call (the re-issue and every backoff retry) carries that token.
C5_PostRefreshHeaders ==
    \A c \in Calls :
        LET cr == calls[c] IN
        (cr.observed /\ Truthy(cr.next)) =>
            /\ cr.next = refreshes[cr.refreshId].next
            /\ \A j \in 2..Len(cr.log) : cr.log[j].auth = cr.next

\* C5 witness: a backoff retry issued after a refresh carries the new token,
\* which differs from the token of the first attempt.
C5_Witness ==
    \E c \in Calls :
        LET cr == calls[c] IN
        /\ cr.observed /\ Truthy(cr.next)
        /\ Len(cr.log) >= 3
        /\ cr.log[3].phase = "backoff"
        /\ cr.log[3].auth = cr.next
        /\ cr.log[1].auth = InitialToken
        /\ cr.log[1].auth # cr.next

\* the transient set as the claims state it
ClaimTransient == {408, 425, 429, 500, 502, 503, 504}

\* the first n attempts of the call were all answered with a transient status
TransientAnswers(cr, n) ==
    \A j \in 1..n : cr.log[j].result = "response" /\ cr.log[j].status \in ClaimTransient

Finished(cr) == cr.pc \in {"errorBody", "done"}

\* C6: a GET answered with transient statuses idempotentRetries times and then
\* 200 returns the 200 response after exactly idempotentRetries backoff
\* retries; no transient response ends the call while retries remain.
C6_TransientThenOk ==
    \A c \in Calls :
        LET cr == calls[c]
            k == RetriesOrDefault(cr.idempotentRetries)
        IN (cr.pc # "unused" /\ MethodOf(cr.initMethod) = "GET") =>
            /\ (Finished(cr) /\ TransientAnswers(cr, Len(cr.log))) => Len(cr.log) = k + 1
            /\ (/\ Len(cr.log) = k + 1
                /\ TransientAnswers(cr, k)
                /\ cr.log[k + 1].result = "response"
                /\ cr.log[k + 1].status = 200) =>
                   /\ cr.pc = "done"
                   /\ cr.outcome.kind = "returned"
                   /\ cr.outcome.status = 200
                   /\ Len(cr.waits) = k
                   /\ Attempts(cr, "backoff") = 2..(k + 1)

\* C6 witness: a GET with the default two retries was answered 429, 429, 200
\* and returned the 200.
C6_Witness ==
    \E c \in Calls :
        LET cr == calls[c] IN
        /\ cr.pc = "done"
        /\ cr.idempotentRetries = Absent
        /\ Len(cr.log) = 3
        /\ cr.log[1].status = 429 /\ cr.log[2].status = 429 /\ cr.log[3].status = 200
        /\ cr.outcome.kind = "returned" /\ cr.outcome.status = 200

\* C7: a call whose method is not GET issues at most two attempts, the second
\* being the re-issue after a 401, and never waits for a backoff.
C7_NonGetNoBackoff ==
    \A c \in Calls :
        LET cr == calls[c] IN
        MethodOf(cr.initMethod) \in {"POST", "PUT", "PATCH", "DELETE"} =>
            /\ Len(cr.log) <= 2
            /\ Attempts(cr, "backoff") = {}
            /\ cr.waits = <<>>
            /\ cr.pc # "backoff"
            /\ Len(cr.log) = 2 => (Is401(cr.log[1]) /\ cr.log[2].phase = "retry401")

\* C7 witness: a POST with idempotentRetries 3 ended on a transient 429
\* without any retry.
C7_Witness ==
    \E c \in Calls :
        LET cr == calls[c] IN
        /\ cr.pc = "done"
        /\ cr.initMethod \in {"post", "POST"}
        /\ cr.idempotentRetries = MaxRetries
        /\ Len(cr.log) = 1
        /\ cr.log[1].status = 429
        /\ cr.outcome.status = 429

RECURSIVE SumSeq(_)
SumSeq(q) == IF q = <<>> THEN 0 ELSE q[1] + SumSeq(Tail(q))

\* C8: the wait before the k-th backoff retry is min(1500 * k, 4000) ms, k
\* from 1; the waits never decrease, never exceed 4000 and, for the default
\* two retries, sum to 4500.
C8_BackoffDelays ==
    \A c \in Calls :
        LET cr == calls[c] IN
        /\ \A k \in 1..Len(cr.waits) :
               /\ cr.waits[k] = (IF 1500 * k <= 4000 THEN 1500 * k ELSE 4000)
               /\ cr.waits[k] <= 4000
               /\ k > 1 => cr.waits[k - 1] <= cr.waits[k]
        /\ Len(cr.waits) <= RetriesOrDefault(cr.idempotentRetries)
        /\ (cr.idempotentRetries = Absent /\ Len(cr.waits) = 2) => SumSeq(cr.waits) = 4500
        /\ Cardinality(Attempts(cr, "backoff")) \in {Len(cr.waits), Len(cr.waits) - 1}

\* C8 witness: a call has waited 1500, 3000 and 4000 ms before its three
\* backoff retries.
C8_Witness ==
    \E c \in Calls :
        /\ Len(calls[c].waits) >= 3
        /\ SubSeq(calls[c].waits, 1, 3) = <<1500, 3000, 4000>>
        /\ Cardinality(Attempts(calls[c], "backoff")) >= 3


\* the URL the model's targets resolve to against the base URL
ExpectedUrl(input) ==
    IF input = <<"/", "p">> THEN <<"m", ":", "/", "/", "b", "/", "p">> ELSE input

\* C9: with throwOnHTTPError a call never returns a response outside 2xx: once
\* its attempts are over with such a response it throws an APIError carrying
\* that response's status and the resolved URL (or the error of reading the
\* error body, when that read fails); without throwOnHTTPError it returns the
\* final response whatever its status and never throws an APIError.
C9_ThrowOnHTTPError ==
    \A c \in Calls :
        LET cr == calls[c]
            out == cr.outcome
            last == Current(cr)
            answered == last.result = "response"
            ok == last.status >= 200 /\ last.status <= 299
        IN cr.pc = "done" =>
            /\ out.kind = "returned" => (answered /\ out.status = last.status)
            /\ out.kind = "APIError" =>
                   /\ cr.throwOnHTTPError
                   /\ answered /\ ~ok
                   /\ out.status = last.status
                   /\ out.url = ExpectedUrl(cr.input)
            /\ cr.throwOnHTTPError =>
                   /\ out.kind = "returned" => ok
                   /\ (answered /\ ~ok) => out.kind \in {"APIError", "TypeError"}
            /\ ~cr.throwOnHTTPError =>
                   /\ out.kind # "APIError"
                   /\ answered => out.kind = "returned"

\* C9 witness: a GET that used up its backoff retries threw APIError 504 with
\* the URL resolved against the base URL.
C9_Witness ==
    \E c \in Calls :
        LET cr == calls[c] IN
        /\ cr.pc = "done"
        /\ cr.throwOnHTTPError
        /\ Len(cr.log) >= 2
        /\ cr.remaining = 0
        /\ cr.outcome = [kind |-> "APIError", status |-> 504,
                         url |-> <<"m", ":", "/", "/", "b", "/", "p">>]

\* C10: every armed timeout timer is the timer of the attempt now in flight,
\* every attempt in flight has its own timer armed, none is armed during a
\* backoff wait or a refresh, and only the attempt in flight is ever aborted.
C10_PerAttemptTimeout ==
    /\ \A t \in timers :
           LET cr == calls[t[1]] IN
           /\ InFlight(cr)
           /\ t[2] = Len(cr.log)
           /\ Current(cr).ctrl = t[2]
    /\ \A c \in Calls :
           LET cr == calls[c] IN
           /\ InFlight(cr) => <<c, Len(cr.log)>> \in timers
           /\ \A j \in 1..Len(cr.log) :
                  /\ cr.log[j].ctrl = j
                  /\ cr.log[j].result = "pending" => (j = Len(cr.log) /\ InFlight(cr))
                  /\ cr.log[j].result = "aborted" =>
                         (j = Len(cr.log) /\ cr.pc = "done" /\ cr.outcome.kind = "AbortError")

\* C10 witness: the third attempt of a call (after a re-issue and a backoff
\* wait) was aborted by its timer, and no timer of the call is left armed.
C10_Witness ==
    \E c \in Calls :
        LET cr == calls[c] IN
        /\ cr.pc = "done"
        /\ Len(cr.log) = 3
        /\ cr.log[2].phase = "retry401"
        /\ cr.log[3].phase = "backoff"
        /\ cr.log[3].result = "aborted"
        /\ cr.waits # <<>>
        /\ \A t \in timers : t[1] # c

\* C11: the signal given to an attempt is aborted as soon as the caller's
\* signal or the attempt's timeout signal fires, and from the start when the
\* caller's signal is aborted already: no attempt is in flight while the
\* caller's signal is aborted or after its timer fired, and an attempt whose
\* signal is aborted ends aborted, with no response, and apiFetch rejects with
\* the AbortError.
C11_ComposedSignal ==
    \A c \in Calls :
        LET cr == calls[c] IN
        \A k \in 1..Len(cr.log) :
            LET a == cr.log[k] IN
            /\ a.result = "pending" =>
                   /\ cr.signal # "aborted"
                   /\ a.signal = "live"
                   /\ <<c, a.ctrl>> \in timers
            /\ a.atStart = "aborted" => (cr.signal = "aborted" /\ a.signal = "aborted")
            /\ a.signal = "aborted" =>
                   /\ a.result = "aborted"
                   /\ a.status = 0
                   /\ k = Len(cr.log)
                   /\ cr.pc = "done"
                   /\ cr.outcome.kind = "AbortError"

\* C11 witness: without AbortSignal.any, the caller aborted its signal during
\* the backoff wait that followed a 429, and the retry was aborted from its
\* start, with no timer left armed.
C11_Witness ==
    \E c \in Calls :
        LET cr == calls[c] IN
        /\ ~cr.hasAny
        /\ cr.signal = "aborted"
        /\ Len(cr.log) = 2
        /\ cr.log[1].result = "response" /\ cr.log[1].status = 429
        /\ cr.log[2].phase = "backoff"
        /\ cr.log[2].atStart = "aborted"
        /\ cr.log[2].result = "aborted"
        /\ cr.outcome.kind = "AbortError"
        /\ \A t \in timers : t[1] # c

\* C12: cancelling a caller while the refresh it awaits is in flight leaves
\* the refresh alone (it settles, its token is in the Token Store and the other
\* waiters get it) and the cancelled caller stops waiting: its apiFetch is not
\* left awaiting the refresh.
C12_CancelledStopsWaiting ==
    \A c \in Calls :
        LET cr == calls[c] IN
        (cr.signal = "aborted" /\ cr.refreshCalls > 0) =>
            /\ cr.pc # "awaitRefresh"
            /\ \A i \in DOMAIN refreshes :
                   (i = cr.refreshId /\ refreshes[i].pc = "done" /\ Truthy(refreshes[i].next)) =>
                       /\ token >= refreshes[i].next
                       /\ \A d \in Calls :
                              calls[d].refreshId = i =>
                                  (calls[d].observed /\ calls[d].next = refreshes[i].next)

\* the refreshes that settle in a step
Settling(i) ==
    /\ i \in DOMAIN refreshes
    /\ refreshes[i].pc # "done"
    /\ refreshes'[i].pc = "done"

\* the calls awaiting refresh i
Waiters(i) == {c \in Calls : calls[c].pc = "awaitRefresh" /\ calls[c].refreshId = i}

\* C13: when a refresh settles with a token, the Token Store holds that token
\* in the state in which the waiters receive it; when it settles after a
\* response outside 2xx, a transport error, or a body without accessToken, it
\* resolves to null and the Token Store is as it was; and the Token Store
\* changes in no other step of a refresh.
C13_StoreBeforeDeliver ==
    [][/\ \A i \in DOMAIN refreshes :
              Settling(i) =>
                  LET v == refreshes'[i].next IN
                  /\ \A c \in Waiters(i) : calls'[c].observed /\ calls'[c].next = v
                  /\ Truthy(v) => (refreshes[i].pc = "store" /\ token' = v)
                  /\ ~Truthy(v) => token' = token
                  /\ refreshes[i].pc = "fetch" => v = Null
                  /\ refreshes[i].pc = "body" => v \in {Null, Empty}
       /\ token' # token => \E i \in DOMAIN refreshes : Settling(i) /\ Truthy(refreshes'[i].next)
      ]_vars

\* C13 witness: a first refresh stored its token and delivered it to a call,
\* and a later refresh failed, resolved to null for its waiter and left that
\* token in the Token Store.
C13_Witness ==
    /\ Len(refreshes) = 2
    /\ refreshes[1] = [pc |-> "done", next |-> NewToken(1)]
    /\ refreshes[2] = [pc |-> "done", next |-> Null]
    /\ token = NewToken(1)
    /\ \E c, e \in Calls :
           /\ calls[c].refreshId = 1 /\ calls[c].observed /\ calls[c].next = NewToken(1)
           /\ calls[e].refreshId = 2 /\ calls[e].observed /\ calls[e].next = Null

\* C14: read-your-write: a get() issued after set(x) completed, with no other
\* set, clear or tab message in between, returns x, in every backing mode and
\* also when a backing-storage operation threw and was swallowed.
C14_ReadYourWrite ==
    (tokenUse.op = "set" /\ tokenUse.read # Absent) => tokenUse.read = tokenUse.value

\* C15: from every state of the store, set(null) and clear() leave the same
\* state behind and post the same null on the BroadcastChannel, whether or not
\* the backing removal throws; when it does not throw, get() then returns null.
C15_SetNullIsClear ==
    /\ \A probe \in Probes, throws \in BOOLEAN :
           LET bySet == setItemAsync(secure, Null, probe, throws)
               byClear == deleteItemAsync(secure, probe, throws)
           IN /\ bySet = byClear
              /\ secure.hasBC =>
                     /\ Len(byClear.posted) = Len(secure.posted) + 1
                     /\ byClear.posted[Len(byClear.posted)] = Null
              /\ ~throws =>
                     \A p2 \in Probes, t2 \in BOOLEAN :
                         getItemAsync(byClear, p2, t2).value = Null
    /\ ( /\ tokenUse.op = "clear" \/ (tokenUse.op = "set" /\ tokenUse.value = Null)
         /\ ~tokenUse.threw
         /\ tokenUse.read # Absent ) => tokenUse.read = Null

\* C15 witness: with sessionStorage and a BroadcastChannel, a token was set,
\* set(null) removed it and announced null, and get() returned null.
C15_Witness ==
    /\ secure.mode = "webSession"
    /\ secure.posted = <<NewToken(1), Null>>
    /\ tokenUse.op = "set" /\ tokenUse.value = Null /\ ~tokenUse.threw
    /\ tokenUse.read = Null
    /\ secure.session = Null /\ secure.inMemoryToken = Null

\* a cache entry that is not stale at time t: now < expiresAt - 20 s, or it
\* has no expiry
Fresh(entry, t) == entry.expiresAt = Absent \/ t < entry.expiresAt - 20

\* the resolvePageUrl call made in a step
Started == Len(resolves') = Len(resolves) + 1

\* the resolvePageUrl calls whose page-url request is answered in a step
Answered(r) ==
    /\ r \in DOMAIN resolves
    /\ resolves[r].pc = "fetch"
    /\ resolves'[r].pc = "done"
    /\ resolves'[r].kind # "failed"

\* C16: a resolvePageUrl call for a page whose cache entry is not stale
\* (now < expiresAt - 20 s) returns the cached URL without calling the page-url
\* endpoint, so resolving twice in that window costs one call; a call made once
\* now >= expiresAt - 20 s calls the endpoint, and its answer replaces the entry.
C16_CacheWindow ==
    [][/\ (Started /\ reader.current # NoDoc) =>
              LET rr == resolves'[Len(resolves')]
                  cached == reader.pageCache[rr.page]
              IN cached # NoEntry =>
                     IF Fresh(cached, now)
                     THEN /\ ~rr.fetched
                          /\ rr.kind = "url"
                          /\ rr.url = cached.url
                          /\ reader' = reader
                     ELSE /\ rr.fetched
                          /\ rr.pc = "fetch"
       /\ \A r \in DOMAIN resolves :
              (Answered(r) /\ resolves'[r].kind = "url") =>
                  /\ resolves'[r].url = MintedUrl(resolves[r].docId, resolves[r].page,
                                                  resolves'[r].url.exp)
                  /\ reader'.pageCache[resolves[r].page] =
                         [url |-> resolves'[r].url, expiresAt |-> resolves'[r].url.exp]
      ]_vars

\* C16 witness: three calls for one page of one document: the first called the
\* endpoint, the second returned the cached URL without a call, and the third,
\* made once the entry was stale, called the endpoint again and its URL
\* replaced the entry.
C16_Witness ==
    /\ Len(resolves) = 3
    /\ \A r \in 1..3 : resolves[r].kind = "url" /\ resolves[r].page = 2
                       /\ resolves[r].docId = "A"
    /\ resolves[1].fetched /\ resolves[1].url.exp # Absent
    /\ ~resolves[2].fetched /\ resolves[2].url = resolves[1].url
    /\ resolves[3].fetched /\ resolves[3].url # resolves[1].url
    /\ now >= resolves[1].url.exp - 20
    /\ reader.pageCache[2].url = resolves[3].url
    /\ opens.count = 1

\* every URL of the page cache and of the URL list of the open document
\* belongs to that document
OwnUrlsOnly(rd) ==
    /\ \A p \in DOMAIN rd.pageCache :
           rd.pageCache[p] # NoEntry => rd.pageCache[p].url.doc = rd.current.id
    /\ \A i \in DOMAIN rd.current.pageUrls :
           rd.current.pageUrls[i] # NoUrl => rd.current.pageUrls[i].doc = rd.current.id

C18_OnlyStaticNeverExpires ==
    /\ \A p \in DOMAIN reader.pageCache :
           LET entry == reader.pageCache[p] IN
           (entry # NoEntry /\ entry.expiresAt = Absent) =>
               ~(entry.url.kind = "minted" /\ entry.url.exp # Absent)
    /\ \A r \in DOMAIN resolves :
           (resolves[r].kind = "url" /\ resolves[r].url.kind = "minted"
                /\ resolves[r].url.exp # Absent) => ~resolves[r].stale

\* a page argument that is NaN, infinite or below 1
BadPage(page) == page.kind # "finite" \/ page.n < 10

\* the endpoint is past its first statement
EndpointStarted == endpoint.pc \in {"awaitGet", "done"}

\* C19: a page-URL request whose page number is not a finite number >= 1
\* fails at once with an API Error of status 400, and nothing of the API
\* client has run for it: no apiFetch call, so no network attempt, no token
\* read and no refresh. A page number that is finite and >= 1 is not
\* rejected there: its request goes to the API client.
C19_BadPageRejectedLocally ==
    (endpoint.name = "getPageUrl" /\ EndpointStarted) =>
        IF BadPage(endpoint.page)
        THEN /\ endpoint.pc = "done"
             /\ endpoint.result.kind = "APIError"
             /\ endpoint.result.status = 400
             /\ \A c \in Calls : calls[c].pc = "unused" /\ calls[c].log = <<>>
             /\ refreshes = <<>>
             /\ refreshPromise = Null
             /\ timers = {}
        ELSE calls[1].pc # "unused"

\* page 0 was asked for and rejected
C19_Witness ==
    /\ endpoint.name = "getPageUrl"
    /\ endpoint.page = JsNumber("finite", 0)
    /\ endpoint.pc = "done"
    /\ endpoint.result = PageError
    /\ calls[1].pc = "unused"

\* the endpoint has validated the body of a response
Validated ==
    /\ endpoint.pc = "done"
    /\ calls[1].pc = "done"
    /\ calls[1].outcome.kind = "returned"
    /\ endpoint.result.kind \in {"value", "APIError"}

\* every value an endpoint returns satisfies the endpoint's schema
ReturnsSchemaValid ==
    (Validated /\ endpoint.result.kind = "value") =>
        SchemaOf(endpoint.name, endpoint.result.value)

\* a body that is no object, or a list body without an items array, is not
\* turned into a successful result
NoResultFromNothing ==
    (Validated /\ endpoint.result.kind = "value") =>
        /\ endpoint.raw.isRecord
        /\ endpoint.name = "listPdfs" => endpoint.raw.f.items.t = "array"

\* a body that fails validation raises an APIError that carries the diagnostics
FailsWithDiagnostics ==
    (Validated /\ endpoint.result.kind = "APIError") =>
        /\ endpoint.result.status = 200
        /\ endpoint.result.diagnostics
        /\ ~SchemaOf(endpoint.name, endpoint.raw)

\* C20: validation and normalization failures are never silently dropped:
\* every value returned by listPdfs, getPdfDetail, getPageUrl and searchPdf
\* satisfies its schema, a failure raises an APIError with the validation
\* diagnostics, and a response that is not an object or has no items array is
\* not turned into a successful result.
C20_FailsLoudly ==
    /\ ReturnsSchemaValid
    /\ NoResultFromNothing
    /\ FailsWithDiagnostics

\* an element of items that has no title but a non-empty string name
NamedOnly(e) == e.isRecord /\ e.f.title.t = "undefined" /\ NonEmptyString(e.f.name)

\* the value a field gets from its key or, that one missing, from its alias
Aliased(e, key, alias) == Coalesce(e.f[key], e.f[alias])

\* an element whose fields, under their own or their alias keys, are what
\* the item schema asks for
ValidUnderAliases(e) ==
    /\ e.isRecord
    /\ NonEmptyString(e.f.title) \/ NonEmptyString(e.f.name)
    /\ Aliased(e, "pages", "pageCount").t = "number"
    /\ Aliased(e, "pages", "pageCount").n > 0
    /\ Aliased(e, "pages", "pageCount").n % 10 = 0
    /\ IF e.f.coverUrl.t = "string" THEN ZUrlLike(e.f.coverUrl)
       ELSE e.f.thumbnailUrl.t = "string" => ZUrlLike(e.f.thumbnailUrl)
    /\ NonEmptyString(e.f.updatedAt) => IsDatetime(e.f.updatedAt.s)

ListReturned == Validated /\ endpoint.name = "listPdfs"

\* C21: a list response whose items lack title but carry a non-empty string
\* name is returned by listPdfs with title equal to name in those items, and
\* the result validates against the list schema; pageCount is accepted for
\* pages and _id for id. The response is returned whenever each item of its
\* items array is valid under its own or its alias keys.
C21_NameForTitle ==
    ListReturned =>
        LET raw == endpoint.raw
            out == endpoint.result
        IN /\ (/\ raw.isRecord
               /\ raw.f.items.t = "array"
               /\ \A i \in DOMAIN raw.elems : ValidUnderAliases(raw.elems[i]))
                  => out.kind = "value"
           /\ out.kind = "value" =>
                 /\ ListResponseSchema(out.value).success
                 /\ Len(out.value.elems) = Len(ItemsIn(raw))
                 /\ \A i \in DOMAIN raw.elems :
                       NamedOnly(raw.elems[i]) =>
                          LET e == raw.elems[i]
                              o == out.value.elems[i].f
                          IN /\ o.title = e.f.name
                             /\ e.f.pages.t = "undefined" => o.pages = e.f.pageCount
                             /\ (e.f.id.t = "undefined" /\ e.f["_id"].t = "number")
                                   => o.id = Str(ToText(e.f["_id"]))

\* a list of two items, one named by `name`, `_id` and `pageCount` only, came back
C21_Witness ==
    /\ ListReturned
    /\ endpoint.result.kind = "value"
    /\ Len(endpoint.raw.elems) = 2
    /\ \E i \in 1..2 :
          /\ NamedOnly(endpoint.raw.elems[i])
          /\ endpoint.raw.elems[i].f.pages.t = "undefined"
          /\ endpoint.raw.elems[i].f.id.t = "undefined"
          /\ endpoint.result.value.elems[i].f.title = Str("T")
          /\ endpoint.result.value.elems[i].f.id = Str("7")

\* a text that starts with a URL scheme and a colon: an absolute URL
HasScheme(input) ==
    \E n \in 1..Len(input) :
        /\ n + 1 <= Len(input)
        /\ input[1] \in Letters
        /\ \A i \in 2..n : input[i] \in SchemeTail
        /\ input[n + 1] = ":"

Resolved == resolution.pc \in {"resolved", "again"}

\* C22: for every valid absolute URL passed as the target, the URL requested
\* is that input verbatim: the base URL is never prepended, and resolving
\* the result again gives the same result.
C22_AbsolutePassthrough ==
    /\ (Resolved /\ HasScheme(resolution.input)) => resolution.url = resolution.input
    /\ (resolution.pc = "again" /\ HasScheme(resolution.input))
          => resolution.again = resolution.url

\* n slashes
Slashes(n) == [i \in 1..n |-> "/"]

\* s is head followed by slashes only, and head does not end with a slash
EndsAfter(s, head) ==
    /\ Len(head) <= Len(s)
    /\ s = head \o Slashes(Len(s) - Len(head))
    /\ Len(head) > 0 => head[Len(head)] # "/"

\* s is slashes only followed by rest, and rest does not start with a slash
StartsBefore(s, rest) ==
    /\ Len(rest) <= Len(s)
    /\ s = Slashes(Len(s) - Len(rest)) \o rest
    /\ Len(rest) > 0 => rest[1] # "/"

\* C23: for every relative path and every configured base URL, the resolved
\* URL is the base without its trailing slashes, one '/', and the path
\* without its leading slashes: exactly one '/' separates base and path,
\* however many slashes the base ends with and the path starts with.
C23_OneSlash ==
    (Resolved /\ ~IsAbsolute(resolution.input)) =>
        \E n \in 0..Len(resolution.base), k \in 0..Len(resolution.input) :
            LET head == SubSeq(resolution.base, 1, n)
                rest == SubSeq(resolution.input, k + 1, Len(resolution.input))
            IN /\ EndsAfter(resolution.base, head)
               /\ StartsBefore(resolution.input, rest)
               /\ resolution.url = head \o <<"/">> \o rest

\* a base that ends with two slashes and a path that starts with two were joined
C23_Witness ==
    /\ Resolved
    /\ resolution.base = <<"m", ":", "/", "/", "b", "/", "/">>
    /\ resolution.input = <<"/", "/", "a", "/", "1">>
    /\ resolution.url = <<"m", ":", "/", "/", "b", "/", "a", "/", "1">>

\* the attempts of a call that ended without an HTTP response
NoResponse(entry) == entry.result \in {"failed", "aborted"}

\* an attempt without response is the last one of its call, and the call has
\* thrown the transport error
LastAndThrown(cr) ==
    \A k \in DOMAIN cr.log :
        NoResponse(cr.log[k]) =>
            /\ k = Len(cr.log)
            /\ cr.pc = "done"
            /\ cr.outcome.kind \in {"TypeError", "AbortError"}

\* C24: a transport failure or an abort of any network attempt of an apiFetch
\* call propagates at once: the call throws in the step in which the attempt
\* fails, it issues no further attempt, waits for no backoff (even for a GET
\* with retries left) and starts no refresh.
C24_FailurePropagates ==
    [][\A c \in Calls :
          /\ LastAndThrown(calls'[c])
          /\ (/\ calls'[c] # calls[c]
              /\ calls'[c].log # <<>>
              /\ NoResponse(Current(calls'[c])))
                => /\ calls'[c].waits = calls[c].waits
                   /\ calls'[c].refreshCalls = calls[c].refreshCalls
                   /\ Len(refreshes') = Len(refreshes)
          /\ (calls[c].log # <<>> /\ NoResponse(Current(calls[c])))
                => calls'[c] = calls[c]]_vars

\* the first attempt of a GET with a retry left failed, and the attempt
\* re-issued after a refresh by another call timed out
C24_Witness ==
    /\ calls[1].pc = "done"
    /\ calls[1].outcome.kind = "TypeError"
    /\ Len(calls[1].log) = 1
    /\ isGet(MethodOf(calls[1].initMethod))
    /\ calls[1].remaining > 0
    /\ calls[1].waits = <<>>
    /\ calls[2].pc = "done"
    /\ calls[2].outcome.kind = "AbortError"
    /\ Current(calls[2]).phase = "retry401"

\* with auth false no attempt of the call carries an Authorization header
NoBearerWithoutAuth ==
    \A c \in Calls :
        ~calls[c].auth => \A k \in DOMAIN calls[c].log : calls[c].log[k].auth = Null

\* with auth true and a token in the store, the initial attempt carries it
BearerWithAuth ==
    \A c \in Calls :
        (calls[c].auth /\ calls[c].log # <<>> /\ refreshes = <<>> /\ Truthy(token))
            => calls[c].log[1].auth = token

\* C25: with auth false apiFetch does not read the Token Store and no attempt
\* of the call (initial, re-issue after a refresh, backoff retry) carries an
\* Authorization header added by the client; with auth true and a token
\* present the initial attempt carries Authorization: Bearer <token>.
C25_AuthOption ==
    /\ NoBearerWithoutAuth
    /\ BearerWithAuth

\* refresh i has written its token to the Token Store
Stored(i) == refreshes[i].pc = "done" /\ Truthy(refreshes[i].next)

\* C26: once clearSession has cleared the token, the Token Store holds no
\* token until a loginWithPassword stores one or a refresh that started after
\* the clear does; a refresh that was in flight when clearSession ran does
\* not put a token back.
C26_ClearedStaysCleared ==
    (/\ authSession.logout # "idle"
     /\ ~authSession.loginAfterClear
     /\ \A i \in DOMAIN refreshes : i > authSession.clearedAt => ~Stored(i))
        => token = Null

\* every open call made so far has completed, and none has failed
OpensCompleted ==
    /\ opens.count > 0
    /\ \A id \in Docs : opens.pending[id] = 0
    /\ ~opens.failed

\* C27: when open() calls for different documents overlap, then after all of
\* them have completed successfully the current document is the one
\* requested last, whatever the order of the detail responses, and the page
\* cache holds no entry resolved for another document.
C27_LastOpenWins ==
    OpensCompleted =>
        /\ reader.current.id = opens.last
        /\ OwnUrlsOnly(reader)

\* attempt k of the call is a backoff retry that was answered 401
Backoff401(cr, k) ==
    /\ cr.log[k].phase = "backoff"
    /\ cr.log[k].result = "response"
    /\ cr.log[k].status = 401

\* C28: a refresh is triggered only by the first response of an apiFetch
\* call. A 401 received on a backoff retry is surfaced to the caller (thrown
\* as APIError 401 or returned) with no refresh and no re-issue, even with
\* retryOn401 true.
C28_RefreshOnFirstResponseOnly ==
    \A c \in Calls :
        LET cr == calls[c] IN
        /\ cr.refreshCalls > 0 =>
              /\ cr.refreshCalls = 1
              /\ cr.log[1].result = "response"
              /\ cr.log[1].status = 401
              /\ cr.retryOn401
        /\ \A k \in DOMAIN cr.log :
              Backoff401(cr, k) =>
                 /\ k = Len(cr.log)
                 /\ cr.pc \in {"errorBody", "done"}
                 /\ cr.pc = "done" =>
                       \/ cr.outcome.kind \in {"APIError", "returned"} /\ cr.outcome.status = 401
                       \/ cr.outcome.kind = "TypeError" /\ cr.throwOnHTTPError
                 /\ cr.log[1].status # 401 => cr.refreshCalls = 0 /\ cr.refreshId = Null

\* a GET with retryOn401 got a transient status first and 401 on its backoff
\* retry, and threw APIError 401 with no refresh made
C28_Witness ==
    /\ calls[1].pc = "done"
    /\ calls[1].retryOn401
    /\ calls[1].auth
    /\ Len(calls[1].log) = 2
    /\ isTransient(calls[1].log[1].status)
    /\ Backoff401(calls[1], 2)
    /\ calls[1].remaining > 0
    /\ calls[1].outcome.kind = "APIError"
    /\ calls[1].outcome.status = 401
    /\ refreshes = <<>>

\* C29: every apiFetch call eventually settles (returns a response or throws)
\* even if the server never answers one of its requests, every network wait
\* of the call, the wait for the shared refresh included, being bounded by a
\* timer.
C29_EventuallySettles == <>(\A c \in Calls : calls[c].pc = "done")

\* the request of the endpoint was handed to apiFetch
Requested == endpoint.pc \in {"awaitGet", "done"} /\ calls[1].pc # "unused"

\* C30: for every endpoint of the resource API layer the retry count of the
\* endpoint is only a default: an idempotentRetries the caller supplies in
\* the fetch options is the count apiFetch uses.
C30_CallerOverrides ==
    (Requested /\ endpoint.opts # Absent)
        => calls[1].idempotentRetries = endpoint.opts

\* the requests a call has issued to its target so far
RequestsOf(cr) == Len(cr.log)

\* the call re-issued its request after a refresh that yielded a token
Reissued(cr) == \E i \in DOMAIN cr.log : cr.log[i].phase = "retry401"

\* the backoff iterations a call has been through
Iterations(cr) == Cardinality({i \in DOMAIN cr.log : cr.log[i].phase = "backoff"})

\* C31: the requests one apiFetch GET issues to its target are bounded: at
\* most 1 + idempotentRetries without a refresh and at most
\* 2 + idempotentRetries with a successful one; every backoff iteration takes
\* one off the remaining-retry counter, which never goes below zero, so the
\* loop ends even if every answer is a transient status.
C31_BoundedRequests ==
    \A c \in Calls :
        LET cr == calls[c]
            n == RetriesOrDefault(cr.idempotentRetries)
        IN (cr.pc \notin {"unused", "init"} /\ isGet(MethodOf(cr.initMethod)))
              => /\ cr.remaining \in 0..n
                 /\ Iterations(cr) = n - cr.remaining
                 /\ RequestsOf(cr) = (IF Reissued(cr) THEN 2 ELSE 1) + Iterations(cr)
                 /\ RequestsOf(cr) <= (IF Reissued(cr) THEN 2 ELSE 1) + n

\* a GET that refreshed, re-issued its request and used every retry it had
C31_Witness ==
    \E c \in Calls :
        /\ calls[c].pc = "done"
        /\ isGet(MethodOf(calls[c].initMethod))
        /\ calls[c].idempotentRetries = MaxRetries
        /\ Reissued(calls[c])
        /\ RequestsOf(calls[c]) = 2 + MaxRetries
        /\ calls[c].remaining = 0
        /\ isTransient(calls[c].res)

\* no listPdfs request of the library store is awaited
LibrarySettled == library.inflight = <<>>

\* the backend lists the document under the filter
ListedUnder(id, f) == \E k \in DOMAIN Matches(f) : Matches(f)[k] = id

\* C32: in the library store, once no request is in flight after any
\* interleaving of refresh and fetchNext calls, every item was returned by
\* the backend for the store's current filters, nextCursor belongs to those
\* filters and loading is false: a fetchNext started under older filters
\* never merges its page into the list of a newer refresh.
C32_ListOfCurrentFilters ==
    LibrarySettled =>
        /\ \A i \in DOMAIN library.items : ListedUnder(library.items[i], library.filter)
        /\ library.nextCursor # NoCursor => library.nextCursor[1] = library.filter
        /\ ~library.loading

\* C33: in the reader store searchHits always belong to the open document:
\* the result of a search started on one document is never stored after
\* another document has been opened.
C33_HitsOfOpenDocument ==
    reader.searchHits # NoHits => reader.searchHits = HitsOf(reader.current.id)

\* the page numbers the page cache has an entry for
CachedPages == {p \in DOMAIN reader.pageCache : reader.pageCache[p] # NoEntry}

AllDelivered == \A t \in Tabs : tabs.inbox[t] = <<>>

\* C34: token updates are mirrored across browser tabs: after the tabs on the
\* broadcast channel performed any sequence of set and clear operations, two
\* tabs setting different tokens concurrently included, and every broadcast
\* message has been delivered, get() returns the same token in every tab.
C34_TabsAgree ==
    AllDelivered => \A t, u \in Tabs : TabGet(t) = TabGet(u)

\* clearSession gets to its logout request in this step
LogoutPosted == authSession.logout = "idle" /\ authSession'.logout # "idle"

\* clearSession settles in this step
LogoutOver == authSession.logout = "posted" /\ authSession'.logout # "posted"

\* no login has stored a token since the clear, and no refresh has stored one
NothingStoredSince ==
    /\ ~authSession.loginAfterClear
    /\ \A i \in DOMAIN refreshes : ~Stored(i)

\* C35: clearSession clears the Token Store before it issues POST
\* /auth/logout, and it completes normally with the Token Store cleared even
\* when the logout request fails at transport level or answers a non-2xx
\* status: the answer is ignored, it neither rejects clearSession nor touches
\* the Token Store, which holds no token unless a login or a refresh stored
\* one in between.
C35_LogoutBestEffort ==
    [][/\ LogoutPosted => (authSession'.logout = "posted" /\ token' = Null)
       /\ LogoutOver => /\ authSession'.logout = "done"
                        /\ token' = token
                        /\ NothingStoredSince => token' = Null]_vars

\* a session that had logged in was cleared, and clearSession completed
\* although its logout request failed or was refused
C35_Witness ==
    /\ authSession.login = "done"
    /\ ~authSession.loginAfterClear
    /\ authSession.logout = "done"
    /\ authSession.answer \in {"500", "failed"}
    /\ token = Null

====
